---------------------------- MODULE Spec2Model ----------------------------
(***************************************************************************)
(* Model of the table formatter (package tableformatter).                  *)
(*                                                                         *)
(* Strings are sequences of one-byte characters.  Every character is a    *)
(* TLA+ string of length one, except the two control bytes ESC (0x1b) and  *)
(* NL (0x0a), which are the tokens "ESC" and "NL".  All characters of the  *)
(* model are ASCII, so Go's len (bytes) and fmt's width (runes) agree.     *)
(*                                                                         *)
(* A cell value (Go interface{}) is a record [k, n, s]: k is the dynamic   *)
(* type ("int", "string", "float64", "bool"), n the number (an int, a      *)
(* float64 counted in quarters, a bool as 0/1), s the string.              *)
(*                                                                         *)
(* Data and Schema are the fields of the table.  op is the last call made  *)
(* on it with its arguments, pre the table before that call, ret the       *)
(* (string, error) the call returned, fault whether a call panicked.  fin  *)
(* and fout are the input and the result of the function applied in the    *)
(* specifications of single functions (SpecCell, SpecRow); in SpecPure the *)
(* functions are applied to the table Data, Schema and fout is the result, *)
(* in SpecMeasure the header line and the row measurement; SpecSort is the *)
(* sorter on tables with columns of every type, SpecSmall the plain-text   *)
(* rendering at every kind of fold threshold.                              *)
(***************************************************************************)
EXTENDS Integers, Sequences, FiniteSets, TLC

VARIABLES Data, Schema, op, pre, ret, fault, fin, fout

vars == <<Data, Schema, op, pre, ret, fault, fin, fout>>

---------------------------------------------------------------------------
(* Characters and strings *)

ESC == "ESC"
NL == "NL"

\* the parameter bytes and the final bytes of the pattern \x1b\[[0-9;]*[mG]
ParamChars == {"0", "1", "2", "3", "4", "5", "6", "7", "8", "9", ";"}
FinalChars == {"m", "G"}

Max(a, b) == IF a > b THEN a ELSE b

SetMin(S) == CHOOSE m \in S : \A x \in S : m <= x

\* the sequence [i \in 1..n |-> e] with every element computed once
Tuple(f) == f \o <<>>

RECURSIVE FlatRange(_, _, _)
\* F(lo) \o ... \o F(hi), by halving (the recursion stays shallow on long strings)
FlatRange(F(_), lo, hi) ==
    IF lo > hi THEN <<>>
    ELSE IF lo = hi THEN F(lo)
    ELSE LET mid == (lo + hi) \div 2
         IN  FlatRange(F, lo, mid) \o FlatRange(F, mid + 1, hi)

\* a byte-by-byte rewriting of s: every byte c becomes the string F(c)
MapChars(F(_), s) == FlatRange(LAMBDA i : F(s[i]), 1, Len(s))

\* strings.Builder: the concatenation of a list of strings
Concat(ss) == FlatRange(LAMBDA i : ss[i], 1, Len(ss))

\* strings.Join(ss, sep)
Join(ss, sep) == FlatRange(LAMBDA i : IF i = 1 THEN ss[1] ELSE sep \o ss[i], 1, Len(ss))

\* strings.Split(s, sep) for a one-byte sep: always at least one element
SplitOn(s, sep) ==
    LET seps == {i \in 1..Len(s) : s[i] = sep}
        \* the position of the k-th separator; 0 and Len(s)+1 bracket the string
        at(k) == IF k = 0 THEN 0
                 ELSE IF k > Cardinality(seps) THEN Len(s) + 1
                 ELSE CHOOSE i \in seps : Cardinality({j \in seps : j <= i}) = k
    IN  IF seps = {} THEN <<s>>
        ELSE Tuple([k \in 1..(Cardinality(seps) + 1) |-> SubSeq(s, at(k - 1) + 1, at(k) - 1)])

\* strings.Split(s, "\n")
Split(s) == SplitOn(s, NL)

\* strings.ReplaceAll(s, "%", "%%")
EscapePercent(s) == MapChars(LAMBDA c : IF c = "%" THEN <<"%", "%">> ELSE <<c>>, s)

emptyString(length) == Tuple([i \in 1..length |-> " "])

\* fmt's "%-<w>s": the string followed by spaces up to w characters, counted on
\* the raw string; never truncated
PadRight(s, w) == IF Len(s) >= w THEN s ELSE s \o emptyString(w - Len(s))

RECURSIVE ParamEnd(_, _)
\* the first index from j on that holds no parameter byte (Len(s)+1 if none)
ParamEnd(s, j) ==
    IF j > Len(s) THEN j
    ELSE IF s[j] \in ParamChars THEN ParamEnd(s, j + 1)
    ELSE j

\* a faulty variant: the final byte 'G' is not accepted
MatchEndOnlyM(s, i) ==
    IF s[i] = ESC /\ i + 1 <= Len(s) /\ s[i + 1] = "["
    THEN LET j == ParamEnd(s, i + 2)
         IN  IF j <= Len(s) /\ s[j] = "m" THEN j ELSE 0
    ELSE 0

\* the last index of the match of the pattern that starts at i, 0 when none does
MatchEnd(s, i) ==
    IF s[i] = ESC /\ i + 1 <= Len(s) /\ s[i + 1] = "["
    THEN LET j == ParamEnd(s, i + 2)
         IN  IF j <= Len(s) /\ s[j] \in FinalChars THEN j ELSE 0
    ELSE 0

\* regexp.ReplaceAllLiteralString(s, ""): one left-to-right pass that drops every
\* match.  A match holds ESC at its start only, so matches never overlap and the
\* leftmost non-overlapping matches are all the matches.
decolorize(s) ==
    LET escs == {i \in 1..Len(s) : s[i] = ESC}
        ends == [i \in escs |-> MatchEnd(s, i)]
        dropped(k) == \E i \in escs : i <= k /\ k <= ends[i]
    IN  IF escs = {} THEN s
        ELSE FlatRange(LAMBDA k : IF dropped(k) THEN <<>> ELSE <<s[k]>>, 1, Len(s))

Digit(d) == CASE d = 0 -> "0" [] d = 1 -> "1" [] d = 2 -> "2" [] d = 3 -> "3"
              [] d = 4 -> "4" [] d = 5 -> "5" [] d = 6 -> "6" [] d = 7 -> "7"
              [] d = 8 -> "8" [] d = 9 -> "9"

RECURSIVE NatToStr(_)
NatToStr(n) == IF n < 10 THEN <<Digit(n)>> ELSE Append(NatToStr(n \div 10), Digit(n % 10))

\* fmt "%d"
IntToStr(n) == IF n < 0 THEN <<"-">> \o NatToStr(0 - n) ELSE NatToStr(n)

RECURSIVE Pow10(_)
Pow10(p) == IF p = 0 THEN 1 ELSE 10 * Pow10(p - 1)

RECURSIVE ZeroPad(_, _)
ZeroPad(s, w) == IF Len(s) >= w THEN s ELSE ZeroPad(<<"0">> \o s, w)

\* fmt "%.<prec>f" of the float64 q/4 (q >= 0): exact decimal rounding to prec
\* digits, ties to even (q/4 is exact in binary, so strconv rounds the exact value)
FormatFloat(q, prec) ==
    LET scaled == q * Pow10(prec)          \* value * 10^prec * 4
        fl == scaled \div 4
        rm == scaled % 4
        rounded == IF rm > 2 \/ (rm = 2 /\ fl % 2 = 1) THEN fl + 1 ELSE fl
        whole == rounded \div Pow10(prec)
        frac == rounded % Pow10(prec)
    IN  IF prec = 0 THEN NatToStr(whole)
        ELSE NatToStr(whole) \o <<".">> \o ZeroPad(NatToStr(frac), prec)


---------------------------------------------------------------------------
(* Schema model and cell values *)

TypeInt == 0
TypeString == 1
TypeFloat == 2
TypeDateTime == 3
TypeInterface == 4
TypeBool == 5

DefaultDelimiter == <<"|">>
DefaultFoldAtLength == 300

\* time layouts are abstracted to two one-digit fields, year (Y) and day (D);
\* the default layout is most-significant first, like "2006-01-02T15:04:05Z"
DefaultTimeFormat == <<"Y", "D">>

SchemaField(name, type, size, prec, format) ==
    [FieldName |-> name, FieldType |-> type, FieldSize |-> size,
     FieldPrecision |-> prec, FieldFormat |-> format]

IntV(n) == [k |-> "int", n |-> n, s |-> <<>>]
StrV(s) == [k |-> "string", n |-> 0, s |-> s]
FloatV(q) == [k |-> "float64", n |-> q, s |-> <<>>]
BoolV(b) == [k |-> "bool", n |-> IF b THEN 1 ELSE 0, s |-> <<>>]

\* strconv's shortest representation ('g', -1) of the float64 q/4, q >= 0
FormatFloatShortest(q) ==
    IF q % 4 = 0 THEN NatToStr(q \div 4)
    ELSE IF q % 2 = 0 THEN FormatFloat(q, 1)
    ELSE FormatFloat(q, 2)

\* fmt "%v" of a value
FormatV(d) ==
    CASE d.k = "int" -> IntToStr(d.n)
      [] d.k = "string" -> d.s
      [] d.k = "float64" -> FormatFloatShortest(d.n)
      [] d.k = "bool" -> IF d.n = 1 THEN <<"t", "r", "u", "e">> ELSE <<"f", "a", "l", "s", "e">>

\* fmt "%+v" of a value: the plus flag puts a sign before every number
FormatPlusV(d) ==
    IF d.k \in {"int", "float64"} /\ d.n >= 0 THEN <<"+">> \o FormatV(d) ELSE FormatV(d)

\* the dynamic type a column's type assertion demands ("" when none is made)
AssertedKind(type) ==
    CASE type = TypeInt -> "int"
      [] type = TypeString -> "string"
      [] type = TypeFloat -> "float64"
      [] OTHER -> ""

\* d.(T) of getCellSize and getTableRow panics
AssertPanics(d, field) ==
    AssertedKind(field.FieldType) # "" /\ d.k # AssertedKind(field.FieldType)

RECURSIVE MaxLineLen(_)
MaxLineLen(lines) ==
    IF lines = <<>> THEN 0 ELSE Max(Len(Head(lines)), MaxLineLen(Tail(lines)))

getCellSize(d, field) ==
    LET s == CASE field.FieldType = TypeInt -> IntToStr(d.n)
               [] field.FieldType = TypeString -> decolorize(d.s)
               [] field.FieldType = TypeFloat -> FormatFloat(d.n, field.FieldPrecision)
               [] OTHER -> decolorize(FormatV(d))
    IN  MaxLineLen(Split(s))

RECURSIVE RowSizeFrom(_, _, _)
RowSizeFrom(row, schema, i) ==
    IF i > Len(schema) THEN 0
    ELSE getCellSize(row[i], schema[i]) + RowSizeFrom(row, schema, i + 1)

\* a faulty variant: the last row is measured
getRowSizeLast(data, schema) == RowSizeFrom(data[Len(data)], schema, 1)

\* reads data[0]: the caller guards len(data) > 0
getRowSize(data, schema) == RowSizeFrom(data[1], schema, 1)

\* a faulty variant: only the last row of the column is measured
ColumnMaxLenLast(data, f, i, maxLen) ==
    IF data = <<>> THEN maxLen
    ELSE Max(maxLen, getCellSize(data[Len(data)][i], f))

RECURSIVE ColumnMaxLen(_, _, _, _)
\* the loop over the rows of one column, lines 350-355
ColumnMaxLen(data, f, i, maxLen) ==
    IF data = <<>> THEN maxLen
    ELSE ColumnMaxLen(Tail(data), f, i, Max(maxLen, getCellSize(Head(data)[i], f)))

\* a faulty variant: widens even when nothing exceeds the column
AdjustedSizeAlways(data, f, i) ==
    ColumnMaxLen(data, f, i, Max(f.FieldSize, Len(f.FieldName))) + 1

\* a faulty variant: no room is left to the right
AdjustedSizeTight(data, f, i) ==
    ColumnMaxLen(data, f, i, Max(f.FieldSize, Len(f.FieldName)))

\* a faulty variant: the column is fitted to its content, the old size forgotten
AdjustedSizeShrink(data, f, i) ==
    ColumnMaxLen(data, f, i, Len(f.FieldName)) + 1

\* a faulty variant: the column is fitted to its name only
AdjustedSizeNameOnly(data, f, i) ==
    IF Len(f.FieldName) > f.FieldSize THEN Len(f.FieldName) + 1 ELSE f.FieldSize

\* the new FieldSize of column i, lines 339-358
AdjustedSize(data, f, i) ==
    LET maxLen == ColumnMaxLen(data, f, i, Max(f.FieldSize, Len(f.FieldName)))
    IN  IF maxLen > f.FieldSize THEN maxLen + 1 ELSE f.FieldSize

\* the schema after t.AdjustFieldSizes()
AdjustFieldSizes(data, schema) ==
    Tuple([i \in 1..Len(schema) |->
              [schema[i] EXCEPT !.FieldSize = AdjustedSize(data, schema[i], i)]])

\* a faulty variant: one dash less
DashesShort(n) == Tuple([i \in 1..(n - 1) |-> "-"])

Dashes(n) == Tuple([i \in 1..n |-> "-"])

RECURSIVE getTableDelimiter(_)
getTableDelimiter(schema) ==
    IF schema = <<>> THEN <<"+">>
    ELSE LET front == SubSeq(schema, 1, Len(schema) - 1)
             field == schema[Len(schema)]
         IN  getTableDelimiter(front) \o Dashes(field.FieldSize + 1) \o <<"+">>

\* pad string with spaces up to a de-colorized length
pad(s, desired_len) ==
    IF desired_len - Len(decolorize(s)) <= 0 THEN s
    ELSE s \o emptyString(desired_len - Len(decolorize(s)))

\* the sub-lines of a Text cell, each behind a space and padded, lines 234-239
PaddedLines(splittedS, size) ==
    Tuple([j \in 1..Len(splittedS) |-> <<" ">> \o pad(splittedS[j], size)])

\* the sub-lines of one cell before the height adjustment, lines 227-250
CellLines(d, field) ==
    CASE field.FieldType = TypeInt ->
            << <<" ">> \o PadRight(IntToStr(d.n), field.FieldSize) >>
      [] field.FieldType = TypeString ->
            PaddedLines(Split(EscapePercent(d.s)), field.FieldSize)
      [] field.FieldType = TypeFloat ->
            << <<" ">> \o PadRight(FormatFloat(d.n, field.FieldPrecision), field.FieldSize) >>
      [] OTHER ->
            << <<" ">> \o PadRight(FormatPlusV(d), field.FieldSize) >>

RECURSIVE RowHeightFrom(_, _, _, _)
\* rowHeight after the first loop: only the TypeString branch raises it
RowHeightFrom(cells, schema, i, rowHeight) ==
    IF i > Len(schema) THEN rowHeight
    ELSE IF schema[i].FieldType = TypeString
         THEN RowHeightFrom(cells, schema, i + 1, Max(rowHeight, Len(cells[i])))
         ELSE RowHeightFrom(cells, schema, i + 1, rowHeight)

RECURSIVE CellMaxWidth(_, _)
\* lines 255-261: the raw length is compared, the de-colorized length is stored
CellMaxWidth(cell, maxWidth) ==
    IF cell = <<>> THEN maxWidth
    ELSE IF Len(Head(cell)) > maxWidth
         THEN CellMaxWidth(Tail(cell), Len(decolorize(Head(cell))))
         ELSE CellMaxWidth(Tail(cell), maxWidth)

\* lines 262-272: the sub-lines of a cell padded to maxWidth, then blank lines
\* of maxWidth spaces up to rowHeight
FillTo(cell, rowHeight, maxWidth) ==
    Tuple([j \in 1..Max(rowHeight, Len(cell)) |->
              IF j <= Len(cell) THEN PadRight(cell[j], maxWidth)
              ELSE emptyString(maxWidth)])

\* lines 253-272: one cell brought to rowHeight sub-lines
FillCell(cell, rowHeight) == FillTo(cell, rowHeight, CellMaxWidth(cell, 0))

\* the second loop of getTableRow over the columns
FillCells(cells, rowHeight) ==
    Tuple([i \in 1..Len(cells) |-> FillCell(cells[i], rowHeight)])

\* the first loop of getTableRow: the sub-lines of every cell of the row
RowCellLines(row, schema) ==
    Tuple([i \in 1..Len(schema) |-> CellLines(row[i], schema[i])])

\* rowStr after the fill loop: one list of rowHeight sub-lines per column
FilledRow(cells, schema) == FillCells(cells, RowHeightFrom(cells, schema, 1, 1))

RowCells(row, schema) == FilledRow(RowCellLines(row, schema), schema)

RECURSIVE PhysicalLine(_, _, _)
PhysicalLine(rowStr, y, x) ==
    IF x > Len(rowStr) THEN DefaultDelimiter
    ELSE DefaultDelimiter \o rowStr[x][y] \o PhysicalLine(rowStr, y, x + 1)

\* the physical lines of a row, lines 275-287
PhysicalLines(rowStr) ==
    Tuple([y \in 1..Len(rowStr[1]) |-> PhysicalLine(rowStr, y, 1)])

RowLines(row, schema) == PhysicalLines(RowCells(row, schema))

getTableRow(row, schema) == Join(RowLines(row, schema), <<NL>>)

\* a type assertion of the first loop of getTableRow panics
getTableRowPanics(row, schema) ==
    \E i \in 1..Len(schema) : AssertPanics(row[i], schema[i])

\* a faulty variant: the columns keep their declared types
getTableHeaderTyped(schema) ==
    getTableRow(Tuple([i \in 1..Len(schema) |-> StrV(schema[i].FieldName)]), schema)

getTableHeader(schema) ==
    LET alteredSchema == Tuple([i \in 1..Len(schema) |->
                             SchemaField(<<>>, TypeString, schema[i].FieldSize, 0, <<>>)])
        header == Tuple([i \in 1..Len(schema) |-> StrV(schema[i].FieldName)])
    IN  getTableRow(header, alteredSchema)

\* a faulty variant: the closing delimiter line is missing
TableLinesOpen(delimiter, header, rows) == <<delimiter, header, delimiter>> \o rows

\* the lines getTableAsString writes, in order
TableLines(delimiter, header, rows) ==
    <<delimiter, header, delimiter>> \o rows \o <<delimiter>>

getTableRows(data, schema) ==
    Tuple([r \in 1..Len(data) |-> getTableRow(data[r], schema)])

getTableAsString(data, schema) ==
    Join(TableLines(getTableDelimiter(schema), getTableHeader(schema),
                    getTableRows(data, schema)), <<NL>>) \o <<NL>>

---------------------------------------------------------------------------
(* Byte order of strings, letter case *)

TAB == "TAB"

\* the characters of the model in ASCII order
AsciiOrder ==
    <<TAB, NL, ESC, " ", "\"", "%", "&", "'", ",", "-", ".",
      "0", "1", "2", "3", "4", "5", "6", "7", "8", "9", ":", ";", "<", ">",
      "A", "B", "C", "D", "E", "F", "G", "H", "I", "J", "K", "L", "M",
      "N", "O", "P", "Q", "R", "S", "T", "U", "V", "W", "X", "Y", "Z",
      "[", "\\", "]", "_",
      "a", "b", "c", "d", "e", "f", "g", "h", "i", "j", "k", "l", "m",
      "n", "o", "p", "q", "r", "s", "t", "u", "v", "w", "x", "y", "z",
      "{", "|", "}", "~">>

\* the rank of every character, computed once
OrdMap ==
    [c \in {AsciiOrder[i] : i \in 1..Len(AsciiOrder)} |->
        CHOOSE i \in 1..Len(AsciiOrder) : AsciiOrder[i] = c]

Ord(c) == OrdMap[c]

UpperFirst == Ord("A")
LowerFirst == Ord("a")
IsUpper(c) == Ord(c) >= UpperFirst /\ Ord(c) < UpperFirst + 26
IsLower(c) == Ord(c) >= LowerFirst /\ Ord(c) < LowerFirst + 26
IsDigit(c) == c \in {"0", "1", "2", "3", "4", "5", "6", "7", "8", "9"}
ToLowerChar(c) == IF IsUpper(c) THEN AsciiOrder[Ord(c) - UpperFirst + LowerFirst] ELSE c
ToUpperChar(c) == IF IsLower(c) THEN AsciiOrder[Ord(c) - LowerFirst + UpperFirst] ELSE c

\* strings.ToLower
ToLower(s) == Tuple([i \in 1..Len(s) |-> ToLowerChar(s[i])])

RECURSIVE StrLess(_, _)
\* Go's a < b on strings: bytewise lexicographic
StrLess(a, b) ==
    IF b = <<>> THEN FALSE
    ELSE IF a = <<>> THEN TRUE
    ELSE IF Head(a) = Head(b) THEN StrLess(Tail(a), Tail(b))
    ELSE Ord(Head(a)) < Ord(Head(b))

RECURSIVE CamelFrom(_, _, _)
\* the byte loop of strcase's toCamelInitCase, lower-camel variant
CamelFrom(s, i, capNext) ==
    IF i > Len(s) THEN <<>>
    ELSE LET v == IF capNext THEN ToUpperChar(s[i])
                  ELSE IF i = 1 THEN ToLowerChar(s[i]) ELSE s[i]
         IN  IF IsUpper(v) \/ IsLower(v) THEN <<v>> \o CamelFrom(s, i + 1, FALSE)
             ELSE IF IsDigit(v) THEN <<v>> \o CamelFrom(s, i + 1, TRUE)
             ELSE CamelFrom(s, i + 1, v \in {"_", " ", "-", "."})

\* strcase.ToLowerCamel (the names of the model have no outer blanks)
ToLowerCamel(s) == CamelFrom(s, 1, FALSE)

---------------------------------------------------------------------------
(* Sort engine *)

\* a faulty variant: a value that does not fit the layout is the zero time
ParseTimeLenient(layout, s) ==
    IF Len(s) = Len(layout) /\ \A i \in 1..Len(s) : IsDigit(s[i])
    THEN [ok |-> TRUE,
          t |-> LET y == CHOOSE i \in 1..Len(layout) : layout[i] = "Y"
                    d == CHOOSE i \in 1..Len(layout) : layout[i] = "D"
                IN  10 * (Ord(s[y]) - Ord("0")) + (Ord(s[d]) - Ord("0"))]
    ELSE [ok |-> TRUE, t |-> 0]

\* time.Parse(layout, s) on the abstract layouts: the value must have one digit
\* per layout field; the time is 10*year + day
ParseTime(layout, s) ==
    IF Len(s) = Len(layout) /\ \A i \in 1..Len(s) : IsDigit(s[i])
    THEN [ok |-> TRUE,
          t |-> LET y == CHOOSE i \in 1..Len(layout) : layout[i] = "Y"
                    d == CHOOSE i \in 1..Len(layout) : layout[i] = "D"
                IN  10 * (Ord(s[y]) - Ord("0")) + (Ord(s[d]) - Ord("0"))]
    ELSE [ok |-> FALSE, t |-> 0]

\* a faulty variant: Boolean columns order false before true
TypeLessBoolOrdered(type, a, b, field) ==
    CASE type = TypeInt -> a.n < b.n
      [] type = TypeString -> StrLess(a.s, b.s)
      [] type = TypeFloat -> a.n < b.n
      [] type = TypeDateTime ->
            LET layout == IF field.FieldFormat # <<>> THEN field.FieldFormat
                          ELSE DefaultTimeFormat
                ta == ParseTime(layout, a.s)
                tb == ParseTime(layout, b.s)
            IN  IF ~ta.ok THEN FALSE
                ELSE IF ~tb.ok THEN FALSE
                ELSE ta.t < tb.t
      [] type = TypeBool -> a.n < b.n
      [] OTHER -> FALSE

\* the lessFunc OrderBy installs for a column type, lines 139-181
TypeLess(type, a, b, field) ==
    CASE type = TypeInt -> a.n < b.n
      [] type = TypeString -> StrLess(a.s, b.s)
      [] type = TypeFloat -> a.n < b.n
      [] type = TypeDateTime ->
            LET layout == IF field.FieldFormat # <<>> THEN field.FieldFormat
                          ELSE DefaultTimeFormat
                ta == ParseTime(layout, a.s)
                tb == ParseTime(layout, b.s)
            IN  IF ~ta.ok THEN FALSE
                ELSE IF ~tb.ok THEN FALSE
                ELSE ta.t < tb.t
      [] type = TypeBool -> a.n # b.n
      [] OTHER -> FALSE

\* calling the lessFunc panics: no function was installed (default branch), or
\* a type assertion of the function fails
TypeLessPanics(type, a, b) ==
    CASE type = TypeInt -> a.k # "int" \/ b.k # "int"
      [] type = TypeString -> a.k # "string" \/ b.k # "string"
      [] type = TypeFloat -> a.k # "float64" \/ b.k # "float64"
      [] type = TypeDateTime -> a.k # "string" \/ b.k # "string"
      [] type = TypeBool -> a.k # "bool" \/ b.k # "bool"
      [] OTHER -> TRUE

\* the index of the first column named fn, 0 when there is none
FieldIndex(schema, fn) ==
    IF \E i \in 1..Len(schema) : schema[i].FieldName = fn
    THEN CHOOSE i \in 1..Len(schema) :
             /\ schema[i].FieldName = fn
             /\ \A j \in 1..(i - 1) : schema[j].FieldName # fn
    ELSE 0

\* TableSorter(schema).OrderBy(fieldNames...): nil when a name is unknown
OrderBy(schema, fieldNames) ==
    IF \E k \in 1..Len(fieldNames) : FieldIndex(schema, fieldNames[k]) = 0
    THEN [nil |-> TRUE, schema |-> schema, indexes |-> <<>>, types |-> <<>>]
    ELSE [nil |-> FALSE, schema |-> schema,
          indexes |-> Tuple([k \in 1..Len(fieldNames) |-> FieldIndex(schema, fieldNames[k])]),
          types |-> Tuple([k \in 1..Len(fieldNames) |->
                              schema[FieldIndex(schema, fieldNames[k])].FieldType])]

RECURSIVE LessFrom(_, _, _, _)
\* MultiSorter.Less from key k on: "true", "false" or "panic"
LessFrom(ms, p, q, k) ==
    IF Len(ms.indexes) = 0 THEN "panic"
    ELSE LET index == ms.indexes[k]
             type == ms.types[k]
             field == ms.schema[index]
         IN  IF TypeLessPanics(type, p[index], q[index]) THEN "panic"
             ELSE IF k >= Len(ms.indexes)
                  THEN (IF TypeLess(type, p[index], q[index], field) THEN "true" ELSE "false")
             ELSE IF TypeLess(type, p[index], q[index], field) THEN "true"
             ELSE IF TypeLess(type, q[index], p[index], field) THEN "false"
             ELSE LessFrom(ms, p, q, k + 1)

\* a faulty variant: only the first key decides
LessFirstKey(ms, p, q) ==
    IF Len(ms.indexes) = 0 THEN "panic"
    ELSE IF TypeLessPanics(ms.types[1], p[ms.indexes[1]], q[ms.indexes[1]]) THEN "panic"
    ELSE IF TypeLess(ms.types[1], p[ms.indexes[1]], q[ms.indexes[1]],
                     ms.schema[ms.indexes[1]]) THEN "true"
    ELSE "false"

Less(ms, p, q) == LessFrom(ms, p, q, 1)

\* a faulty variant: the first row is overwritten, the second kept
SwapOverwrite(d, i, j) == [d EXCEPT ![i] = d[j]]

Swap(d, i, j) == [d EXCEPT ![i] = d[j], ![j] = d[i]]

RECURSIVE InsertDown(_, _, _)
\* the inner loop of insertion sort: for j := i; j > a && Less(j, j-1); j--
InsertDown(ms, st, j) ==
    IF st.fault \/ j <= 1 THEN st
    ELSE LET l == Less(ms, st.d[j], st.d[j - 1])
         IN  IF l = "panic" THEN [st EXCEPT !.fault = TRUE]
             ELSE IF l = "true" THEN InsertDown(ms, [st EXCEPT !.d = Swap(st.d, j, j - 1)], j - 1)
             ELSE st

RECURSIVE InsertionSort(_, _, _)
InsertionSort(ms, st, i) ==
    IF st.fault \/ i > Len(st.d) THEN st
    ELSE InsertionSort(ms, InsertDown(ms, st, i), i + 1)

\* ms.Sort(data): sort.Sort is an insertion sort for the slice lengths of the
\* model (fewer than 7 rows); a nil receiver faults on ms.data = data
Sort(ms, data) ==
    IF ms.nil THEN [d |-> data, fault |-> TRUE]
    ELSE InsertionSort(ms, [d |-> data, fault |-> FALSE], 2)

\* ms.less[k](a, b, &ms.schema[index]) as Less calls it: "true", "false" or
\* "panic"
CallLess(type, a, b, field) ==
    IF TypeLessPanics(type, a, b) THEN "panic"
    ELSE IF TypeLess(type, a, b, field) THEN "true"
    ELSE "false"

---------------------------------------------------------------------------
(* Record serializers: yaml.Marshal, json.MarshalIndent and encoding/csv,    *)
(* for the values of the model: strings have no leading or trailing blank   *)
(* or line break, and column names are letters, digits, blanks and dots.    *)

RECURSIVE SortedKeys(_)
\* the keys of a map in the serializers' order (byte order for these names)
SortedKeys(keys) ==
    IF keys = {} THEN <<>>
    ELSE LET m == CHOOSE x \in keys : \A y \in keys \ {x} : StrLess(x, y)
         IN  <<m>> \o SortedKeys(keys \ {m})

\* rowAsMap[key]: the value of the last column that carries the key
MapValue(row, names, key) ==
    row[CHOOSE i \in 1..Len(names) :
            /\ names[i] = key
            /\ \A j \in (i + 1)..Len(names) : names[j] # key]

YAMLFieldNames(schema) ==
    Tuple([i \in 1..Len(schema) |-> ToLowerCamel(ToLower(schema[i].FieldName))])

JSONFieldNames(schema) == Tuple([i \in 1..Len(schema) |-> schema[i].FieldName])

Range(f) == {f[i] : i \in DOMAIN f}

\* the words yaml.v2 resolves to a bool or to null
YAMLWords ==
    {<<"y">>, <<"Y">>, <<"n">>, <<"N">>, <<"~">>,
     <<"n", "o">>, <<"o", "n">>, <<"N", "o">>, <<"O", "n">>, <<"N", "O">>, <<"O", "N">>}

\* resolve("", s) gives a tag other than !!str: the empty string, a number, a word
YAMLResolvesOther(s) ==
    \/ s = <<>>
    \/ \A i \in 1..Len(s) : IsDigit(s[i])
    \/ Len(s) > 1 /\ s[1] \in {"-", "+"} /\ \A i \in 2..Len(s) : IsDigit(s[i])
    \/ s \in YAMLWords

\* yaml_emitter_analyze_scalar finds indicators that forbid the plain style
YAMLIndicators(s) ==
    \/ s[1] \in {"#", ",", "[", "]", "{", "}", "&", "*", "!", "|", ">", "'", "\"", "%", "@"}
    \/ s[1] \in {"-", "?", ":"} /\ (Len(s) = 1 \/ s[2] = " ")
    \/ \E i \in 1..Len(s) : s[i] = ":" /\ (i = Len(s) \/ s[i + 1] = " ")
    \/ \E i \in 2..Len(s) : s[i] = "#" /\ s[i - 1] = " "

YAMLDoubleQuoted(s) ==
    MapChars(LAMBDA c : CASE c = ESC -> <<"\\", "e">>
                          [] c = NL -> <<"\\", "n">>
                          [] c = "\"" -> <<"\\", "\"">>
                          [] c = "\\" -> <<"\\", "\\">>
                          [] OTHER -> <<c>>, s)

YAMLSingleQuoted(s) == MapChars(LAMBDA c : IF c = "'" THEN <<"'", "'">> ELSE <<c>>, s)

RECURSIVE YAMLLiteralLines(_)
\* the lines of a literal block scalar, indented by four; an empty line is bare
YAMLLiteralLines(lines) ==
    IF lines = <<>> THEN <<>>
    ELSE <<NL>> \o (IF Head(lines) = <<>> THEN <<>> ELSE emptyString(4) \o Head(lines))
         \o YAMLLiteralLines(Tail(lines))

\* a string scalar as the value of a block mapping
YAMLString(s) ==
    IF \E i \in 1..Len(s) : s[i] = ESC
    THEN <<"\"">> \o YAMLDoubleQuoted(s) \o <<"\"">>
    ELSE IF \E i \in 1..Len(s) : s[i] = NL
         THEN IF \E i \in 2..Len(s) : s[i] = NL /\ s[i - 1] = " "
              THEN <<"\"">> \o YAMLDoubleQuoted(s) \o <<"\"">>
              ELSE <<"|", "-">> \o YAMLLiteralLines(Split(s))
    ELSE IF YAMLResolvesOther(s) THEN <<"\"">> \o YAMLDoubleQuoted(s) \o <<"\"">>
    ELSE IF YAMLIndicators(s) THEN <<"'">> \o YAMLSingleQuoted(s) \o <<"'">>
    ELSE s

YAMLScalar(d) == IF d.k = "string" THEN YAMLString(d.s) ELSE FormatV(d)

RECURSIVE YAMLMapping(_, _, _, _)
YAMLMapping(keys, row, names, first) ==
    IF keys = <<>> THEN <<>>
    ELSE (IF first THEN <<"-", " ">> ELSE <<" ", " ">>)
         \o Head(keys) \o <<":", " ">> \o YAMLScalar(MapValue(row, names, Head(keys)))
         \o <<NL>> \o YAMLMapping(Tail(keys), row, names, FALSE)

\* getTableAsYAMLString; "[]\n" for no rows
getTableAsYAMLString(data, schema) ==
    LET names == YAMLFieldNames(schema)
        keys == SortedKeys(Range(names))
    IN  IF data = <<>> THEN <<"[", "]", NL>>
        ELSE decolorize(Concat([r \in 1..Len(data) |-> YAMLMapping(keys, data[r], names, TRUE)]))

\* a faulty variant: quotes and backslashes are written as they are
JSONEscapeBare(s) ==
    MapChars(LAMBDA c : CASE c = ESC -> <<"\\", "u", "0", "0", "1", "b">>
                          [] c = NL -> <<"\\", "n">>
                          [] c = TAB -> <<"\\", "t">>
                          [] OTHER -> <<c>>, s)

\* encoding/json's string escaping (HTML-safe)
JSONEscape(s) ==
    MapChars(LAMBDA c : CASE c = ESC -> <<"\\", "u", "0", "0", "1", "b">>
                          [] c = NL -> <<"\\", "n">>
                          [] c = TAB -> <<"\\", "t">>
                          [] c = "\"" -> <<"\\", "\"">>
                          [] c = "\\" -> <<"\\", "\\">>
                          [] c = "<" -> <<"\\", "u", "0", "0", "3", "c">>
                          [] c = ">" -> <<"\\", "u", "0", "0", "3", "e">>
                          [] c = "&" -> <<"\\", "u", "0", "0", "2", "6">>
                          [] OTHER -> <<c>>, s)

JSONString(s) == <<"\"">> \o JSONEscape(s) \o <<"\"">>

JSONScalar(d) == IF d.k = "string" THEN JSONString(d.s) ELSE FormatV(d)

RECURSIVE JSONMembers(_, _, _)
JSONMembers(keys, row, names) ==
    IF keys = <<>> THEN <<>>
    ELSE <<TAB, TAB>> \o JSONString(Head(keys)) \o <<":", " ">>
         \o JSONScalar(MapValue(row, names, Head(keys)))
         \o (IF Len(keys) > 1 THEN <<",">> ELSE <<>>) \o <<NL>>
         \o JSONMembers(Tail(keys), row, names)

JSONObject(row, schema) ==
    LET names == JSONFieldNames(schema)
    IN  <<TAB, "{", NL>> \o JSONMembers(SortedKeys(Range(names)), row, names) \o <<TAB, "}">>

\* getTableAsJSONString: json.MarshalIndent(dataAsMap, "", "\t")
getTableAsJSONString(data, schema) ==
    IF data = <<>> THEN <<"[", "]">>
    ELSE decolorize(<<"[", NL>>
                    \o Join([r \in 1..Len(data) |-> JSONObject(data[r], schema)], <<",", NL>>)
                    \o <<NL, "]">>)

CSVQuote(s) == MapChars(LAMBDA c : IF c = "\"" THEN <<"\"", "\"">> ELSE <<c>>, s)

\* csv.Writer's field: quoted when it holds a comma, a quote or a line break,
\* or starts with a blank
CSVField(s) ==
    IF s # <<>> /\ (s[1] = " " \/ \E i \in 1..Len(s) : s[i] \in {",", "\"", NL})
    THEN <<"\"">> \o CSVQuote(s) \o <<"\"">>
    ELSE s

CSVRecord(fields) ==
    Join(Tuple([i \in 1..Len(fields) |-> CSVField(fields[i])]), <<",">>) \o <<NL>>

\* the cell text of getTableAsCSVString, lines 489-502
CSVCell(d, field) ==
    CASE field.FieldType = TypeInt -> IntToStr(d.n)
      [] field.FieldType = TypeString -> d.s
      [] field.FieldType = TypeFloat -> FormatFloat(d.n, 6)
      [] field.FieldType = TypeDateTime -> d.s
      [] OTHER -> FormatV(d)

getTableAsCSVString(data, schema) ==
    decolorize(CSVRecord(JSONFieldNames(schema))
               \o Concat([r \in 1..Len(data) |->
                    CSVRecord([i \in 1..Len(schema) |-> CSVCell(data[r][i], schema[i])])]))

---------------------------------------------------------------------------
(* Overflow folder and the render entry points *)

Table(data, schema) == [Data |-> data, Schema |-> schema]

\* newTable.AdjustFieldSizes()
Adjusted(t) == Table(t.Data, AdjustFieldSizes(t.Data, t.Schema))

\* t.getTableAsString()
TableAsString(t) == getTableAsString(t.Data, t.Schema)

\* the one-column schema and the YAML rows of getFoldedTableAsString
FoldedSchema == <<SchemaField(<<"V", "a", "l", "u", "e", "s">>, TypeString, 5, 0, <<>>)>>

\* a faulty variant: the records are collected from the last row to the first
FoldedDataBackwards(data, schema) ==
    Tuple([r \in 1..Len(data) |->
              <<StrV(getTableAsYAMLString(<<data[Len(data) + 1 - r]>>, schema))>>])

FoldedData(data, schema) ==
    Tuple([r \in 1..Len(data) |-> <<StrV(getTableAsYAMLString(<<data[r]>>, schema))>>])

\* the one-column table getFoldedTableAsString builds, after its AdjustFieldSizes
FoldedTable(data, schema) == Adjusted(Table(FoldedData(data, schema), FoldedSchema))

getFoldedTableAsString(data, schema) == TableAsString(FoldedTable(data, schema))

\* fmt.Sprintf("Total: %d %s\n\n", len(t.Data), tableName)
Footer(data, tableName) ==
    <<"T", "o", "t", "a", "l", ":", " ">> \o IntToStr(Len(data)) \o <<" ">> \o tableName
    \o <<NL, NL>>

\* a faulty variant: folds already at the threshold
TextBodyAtLeast(data, schema, foldAtLength) ==
    IF Len(data) > 0 /\ getRowSize(data, schema) >= foldAtLength
    THEN getFoldedTableAsString(data, schema)
    ELSE getTableAsString(data, schema)

\* a faulty variant: a table without rows counts as a row of size 0
TextBodyEmptyRow(data, schema, foldAtLength) ==
    IF (IF Len(data) > 0 THEN getRowSize(data, schema) ELSE 0) > foldAtLength
    THEN getFoldedTableAsString(data, schema)
    ELSE getTableAsString(data, schema)

\* the case "" of RenderTableFoldable after t.AdjustFieldSizes(), lines 575-583
TextBody(data, schema, foldAtLength) ==
    IF Len(data) > 0 /\ getRowSize(data, schema) > foldAtLength
    THEN getFoldedTableAsString(data, schema)
    ELSE getTableAsString(data, schema)

\* the default case of RenderTableFoldable on the adjusted schema, lines 573-590
RenderText(data, adjusted, tableName, topLine, foldAtLength) ==
    [s |-> (IF topLine # <<>> THEN topLine \o <<NL>> ELSE <<>>)
           \o TextBody(data, adjusted, foldAtLength)
           \o Footer(data, tableName),
     err |-> "", Schema |-> adjusted]

\* a faulty variant: every format falls back to the plain-text layout
RenderTableFoldableAnyText(data, schema, tableName, topLine, format, foldAtLength) ==
    RenderText(data, AdjustFieldSizes(data, schema), tableName, topLine, foldAtLength)

\* a faulty variant: the plain-text layout is made before the columns are adjusted
RenderTableFoldableAdjustsLast(data, schema, tableName, topLine, format, foldAtLength) ==
    CASE format \in {"json", "JSON"} ->
            [s |-> getTableAsJSONString(data, schema), err |-> "", Schema |-> schema]
      [] format \in {"csv", "CSV"} ->
            [s |-> getTableAsCSVString(data, schema), err |-> "", Schema |-> schema]
      [] format \in {"yaml", "YAML"} ->
            [s |-> getTableAsYAMLString(data, schema), err |-> "", Schema |-> schema]
      [] format = "" ->
            [RenderText(data, schema, tableName, topLine, foldAtLength)
                EXCEPT !.Schema = AdjustFieldSizes(data, schema)]
      [] OTHER ->
            [s |-> <<>>, err |-> "Invalid format", Schema |-> schema]

\* a faulty variant: the columns are adjusted before the format is looked at
RenderTableFoldableAdjustsFirst(data, schema, tableName, topLine, format, foldAtLength) ==
    CASE format \in {"json", "JSON"} ->
            [s |-> getTableAsJSONString(data, schema), err |-> "",
             Schema |-> AdjustFieldSizes(data, schema)]
      [] format \in {"csv", "CSV"} ->
            [s |-> getTableAsCSVString(data, schema), err |-> "",
             Schema |-> AdjustFieldSizes(data, schema)]
      [] format \in {"yaml", "YAML"} ->
            [s |-> getTableAsYAMLString(data, schema), err |-> "",
             Schema |-> AdjustFieldSizes(data, schema)]
      [] format = "" ->
            RenderText(data, AdjustFieldSizes(data, schema), tableName, topLine,
                       foldAtLength)
      [] OTHER ->
            [s |-> <<>>, err |-> "Invalid format", Schema |-> schema]

\* t.RenderTableFoldable: the string, the error ("" for nil) and the schema it leaves
RenderTableFoldable(data, schema, tableName, topLine, format, foldAtLength) ==
    CASE format \in {"json", "JSON"} ->
            [s |-> getTableAsJSONString(data, schema), err |-> "", Schema |-> schema]
      [] format \in {"csv", "CSV"} ->
            [s |-> getTableAsCSVString(data, schema), err |-> "", Schema |-> schema]
      [] format \in {"yaml", "YAML"} ->
            [s |-> getTableAsYAMLString(data, schema), err |-> "", Schema |-> schema]
      [] format = "" ->
            RenderText(data, AdjustFieldSizes(data, schema), tableName, topLine,
                       foldAtLength)
      [] OTHER ->
            [s |-> <<>>, err |-> "Invalid format", Schema |-> schema]

RenderTable(data, schema, tableName, topLine, format) ==
    RenderTableFoldable(data, schema, tableName, topLine, format, DefaultFoldAtLength)

\* a faulty variant: the rows are copied as they are
TransposeTableCopy(t) ==
    IF Len(t.Data) = 0 THEN t
    ELSE Table(Tuple([i \in 1..Len(t.Data) |->
                          Tuple([j \in 1..Len(t.Data[1]) |-> t.Data[i][j]])]),
               t.Schema)

\* TransposeTable: the input itself when it has no rows
TransposeTable(t) ==
    IF Len(t.Data) = 0 THEN t
    ELSE Table(Tuple([j \in 1..Len(t.Data[1]) |->
                          Tuple([i \in 1..Len(t.Data) |-> t.Data[i][j]])]),
               t.Schema)

\* ConvertToStringTable: fmt.Sprintf("%v", v) of every cell
ConvertToStringTable(table) ==
    Table(Tuple([r \in 1..Len(table.Data) |->
                    Tuple([i \in 1..Len(table.Data[r]) |-> StrV(FormatV(table.Data[r][i]))])]),
          table.Schema)

\* the KEY/VALUE table RenderTransposedTable renders for format ""
TransposedSchema ==
    <<SchemaField(<<"K", "E", "Y">>, TypeString, 5, 0, <<>>),
      SchemaField(<<"V", "A", "L", "U", "E">>, TypeString, 5, 0, <<>>)>>

\* a faulty variant: the keys are the column names in lower case
HeaderRowLower(schema) == Tuple([i \in 1..Len(schema) |-> StrV(ToLower(schema[i].FieldName))])

HeaderRow(schema) == Tuple([i \in 1..Len(schema) |-> StrV(schema[i].FieldName)])

TransposedTable(data, schema) ==
    TransposeTable(Table(<<HeaderRow(schema)>>
                         \o ConvertToStringTable(Table(data, schema)).Data,
                         TransposedSchema))

\* the rendering of the KEY/VALUE table reads cell 1 of every row: with no data
\* row the rows have one cell and the read is out of range
RenderTransposedTablePanics(data, schema, format) == format = "" /\ Len(data) = 0

\* newTable.RenderTable(...): the receiver is the transposed copy
RenderTableOf(t, tableName, topLine, format) ==
    RenderTable(t.Data, t.Schema, tableName, topLine, format)

\* only the copy is adjusted: the schema of the receiver stays as it was
RenderTransposedTable(data, schema, tableName, topLine, format) ==
    IF format # "" THEN RenderTable(data, schema, tableName, topLine, format)
    ELSE [RenderTableOf(TransposedTable(data, schema), tableName, topLine, format)
             EXCEPT !.Schema = schema]

---------------------------------------------------------------------------
(* The table and the calls a program makes on it *)

MaxRows == 2

Sizes == {1, 5}

ColID(size) == SchemaField(<<"I", "D">>, TypeInt, size, 0, <<>>)
ColLABEL(size) == SchemaField(<<"L", "A", "B", "E", "L">>, TypeString, size, 0, <<>>)
ColINST(size) == SchemaField(<<"I", "N", "S", "T", ".">>, TypeFloat, size, 2, <<>>)
ColDATE(size) == SchemaField(<<"D", "A", "T", "E">>, TypeDateTime, size, 0, <<"D", "Y">>)
ColANY(size) == SchemaField(<<"A", "N", "Y">>, TypeInterface, size, 0, <<>>)
ColOK(size) == SchemaField(<<"O", "K">>, TypeBool, size, 0, <<>>)
ColUNITNO(size) == SchemaField(<<"U", "N", "I", "T", " ", "N", "O">>, TypeInt, size, 0, <<>>)

Plain == <<"a", "b">>
TwoLines == <<"a", "b", "c", "d", "e", "f", NL, "g">>
Percents == <<"%", "%", "%">>
Coloured == <<ESC, "[", "1", "m", "a", "b", "c", ESC, "[", "0", "m">>

\* the tables a program starts from: a schema and the rows its data is drawn from
Shapes ==
    {[schema |-> <<ColID(a), ColLABEL(a)>>,
      rows |-> {<<IntV(4), StrV(Plain)>>, <<IntV(120), StrV(TwoLines)>>,
                <<IntV(4), StrV(Percents)>>, <<IntV(120), StrV(Coloured)>>}] : a \in Sizes}
    \cup
    {[schema |-> <<ColLABEL(a), ColINST(a)>>,
      rows |-> {<<StrV(<<>>), FloatV(9)>>, <<StrV(TwoLines), FloatV(82)>>,
                <<StrV(Coloured), FloatV(9)>>}] : a \in Sizes}
    \cup
    {[schema |-> <<ColDATE(a), ColID(a)>>,
      rows |-> {<<StrV(<<"1", "9">>), IntV(4)>>, <<StrV(<<"2", "1">>), IntV(4)>>,
                <<StrV(<<"2", "1">>), IntV(120)>>}] : a \in Sizes}

TablesOf(shape) == UNION {[1..n -> shape.rows] : n \in 0..MaxRows}

FieldNames(schema) == {schema[i].FieldName : i \in 1..Len(schema)}

Emp == <<"e", "m", "p">>
Top == <<"T", "o", "p", ":">>

\* the arguments of the calls: <<tableName, topLine, format, foldAtLength>>
FoldableCalls ==
    {<<Emp, <<>>, "", DefaultFoldAtLength>>, <<Emp, Top, "", 3>>, <<<<>>, <<>>, "", 3>>,
     <<Emp, <<>>, "json", DefaultFoldAtLength>>, <<<<>>, <<>>, "csv", DefaultFoldAtLength>>,
     <<Emp, <<>>, "yaml", DefaultFoldAtLength>>, <<Emp, Top, "YAML", 3>>,
     <<Emp, Top, "text", DefaultFoldAtLength>>, <<Emp, <<>>, "xml", 3>>}
RenderCalls == {<<Emp, Top, "">>, <<Emp, Top, "text">>, <<<<>>, <<>>, "JSON">>}
TransposedCalls == {<<Emp, <<>>, "">>, <<Emp, Top, "csv">>}

\* the key lists of OrderBy: one or two column names, or a name of no column
SortCalls(schema) ==
    UNION {[1..n -> FieldNames(schema)] : n \in 1..2} \cup {<< <<"N", "O">> >>}

Call(name, tableName, topLine, format, foldAtLength, fieldNames) ==
    [name |-> name, tableName |-> tableName, topLine |-> topLine, format |-> format,
     foldAtLength |-> foldAtLength, fieldNames |-> fieldNames]

NoCall == Call("", <<>>, <<>>, "", 0, <<>>)
NoRet == [s |-> <<>>, err |-> ""]

Init ==
    /\ \E shape \in Shapes : \E data \in TablesOf(shape) :
          /\ Schema = shape.schema
          /\ Data = data
          /\ pre = Table(data, shape.schema)
    /\ op = NoCall
    /\ ret = NoRet
    /\ fault = FALSE
    /\ fin = <<>>
    /\ fout = <<>>

DoAdjustFieldSizes ==
    /\ ~fault
    /\ op' = Call("AdjustFieldSizes", <<>>, <<>>, "", 0, <<>>)
    /\ pre' = Table(Data, Schema)
    /\ Schema' = AdjustFieldSizes(Data, Schema)
    /\ ret' = NoRet
    /\ UNCHANGED <<Data, fault, fin, fout>>

DoRenderTableFoldable ==
    /\ ~fault
    /\ \E c \in FoldableCalls :
          \E r \in {RenderTableFoldable(Data, Schema, c[1], c[2], c[3], c[4])} :
              /\ op' = Call("RenderTableFoldable", c[1], c[2], c[3], c[4], <<>>)
              /\ Schema' = r.Schema
              /\ ret' = [s |-> r.s, err |-> r.err]
    /\ pre' = Table(Data, Schema)
    /\ UNCHANGED <<Data, fault, fin, fout>>

DoRenderTable ==
    /\ ~fault
    /\ \E c \in RenderCalls :
          \E r \in {RenderTable(Data, Schema, c[1], c[2], c[3])} :
              /\ op' = Call("RenderTable", c[1], c[2], c[3], DefaultFoldAtLength, <<>>)
              /\ Schema' = r.Schema
              /\ ret' = [s |-> r.s, err |-> r.err]
    /\ pre' = Table(Data, Schema)
    /\ UNCHANGED <<Data, fault, fin, fout>>

DoRenderTransposedTable ==
    /\ ~fault
    /\ \E c \in TransposedCalls :
          /\ op' = Call("RenderTransposedTable", c[1], c[2], c[3], DefaultFoldAtLength, <<>>)
          /\ IF RenderTransposedTablePanics(Data, Schema, c[3])
             THEN /\ fault' = TRUE
                  /\ UNCHANGED <<Schema, ret>>
             ELSE \E r \in {RenderTransposedTable(Data, Schema, c[1], c[2], c[3])} :
                      /\ Schema' = r.Schema
                      /\ ret' = [s |-> r.s, err |-> r.err]
                      /\ UNCHANGED fault
    /\ pre' = Table(Data, Schema)
    /\ UNCHANGED <<Data, fin, fout>>

\* TableSorter(t.Schema).OrderBy(fieldNames...).Sort(t.Data)
DoSort ==
    /\ ~fault
    /\ \E fieldNames \in SortCalls(Schema) :
          \E r \in {Sort(OrderBy(Schema, fieldNames), Data)} :
              /\ op' = Call("Sort", <<>>, <<>>, "", 0, fieldNames)
              /\ Data' = r.d
              /\ fault' = r.fault
    /\ pre' = Table(Data, Schema)
    /\ ret' = NoRet
    /\ UNCHANGED <<Schema, fin, fout>>

Next ==
    \/ DoAdjustFieldSizes
    \/ DoRenderTableFoldable
    \/ DoRenderTable
    \/ DoRenderTransposedTable
    \/ DoSort

Spec == Init /\ [][Next]_vars


---------------------------------------------------------------------------
(* getCellSize and decolorize on coloured values: the value v of a cell, the *)
(* control sequences written into its gaps (before, between and after its   *)
(* bytes), and the measurements of the coloured string                      *)

MaxSeqs == 2

ThreeLines == <<"a", NL, "b", NL, "c">>
Tinted == <<ESC, "[", "m", "a">>
Unfinished == <<"a", ESC, "[", "1">>
FinalLike == <<"5", "m">>
Ragged == <<"a", "b", "c", NL, ESC, "[", "1", "m", "x">>

CellTexts == {<<>>, Plain, TwoLines, Tinted, Unfinished, FinalLike}

\* control sequences: ESC '[' digits/';' then 'm' or 'G'
Seqs == {<<ESC, "[", "1", "m">>, <<ESC, "[", "0", ";", "3", "G">>}

\* columns whose getCellSize takes a string: Text, and the default branch
CellFields == {ColLABEL(1), ColDATE(1)}

\* v with the sequences ins[g] written into gap g (gap Len(v)+1 is the end)
Weave(v, ins) ==
    FlatRange(LAMBDA g : IF g <= Len(v) THEN ins[g] \o <<v[g]>> ELSE ins[g],
              1, Len(v) + 1)

NoSeqs(v) == Tuple([g \in 1..(Len(v) + 1) |-> <<>>])

\* what the code computes of a string d in a column
Measured(d, field) ==
    [c |-> d, size |-> getCellSize(StrV(d), field), plain |-> decolorize(d)]

InitCell ==
    /\ Data = <<>>
    /\ Schema = <<>>
    /\ pre = Table(<<>>, <<>>)
    /\ op = NoCall
    /\ ret = NoRet
    /\ fault = FALSE
    /\ \E v \in CellTexts : \E field \in CellFields :
          /\ fin = [v |-> v, field |-> field, ins |-> NoSeqs(v), n |-> 0]
          /\ fout = Measured(v, field)

\* one more sequence into a gap of v, then getCellSize and decolorize
InsertSequence ==
    /\ fin.n < MaxSeqs
    /\ \E g \in 1..(Len(fin.v) + 1) : \E q \in Seqs :
          \E ins \in {[fin.ins EXCEPT ![g] = @ \o q]} :
              /\ fin' = [fin EXCEPT !.ins = ins, !.n = @ + 1]
              /\ fout' = Measured(Weave(fin.v, ins), fin.field)
    /\ UNCHANGED <<Data, Schema, op, pre, ret, fault>>

NextCell == InsertSequence

SpecCell == InitCell /\ [][NextCell]_vars

---------------------------------------------------------------------------
(* getTableRow on rows whose columns need not be adjusted to their values *)

RowTexts == {<<>>, Plain, TwoLines, ThreeLines, Coloured, Ragged, Percents}

RowSchemas == {<<ColID(a), ColLABEL(a), ColLABEL(a)>> : a \in Sizes}

Rows == {<<IntV(n), StrV(a), StrV(b)>> : n \in {4, 120}, a \in RowTexts, b \in RowTexts}

\* a column of every logical type
TypedColumns(size) ==
    {ColID(size), ColLABEL(size), ColINST(size), ColDATE(size), ColANY(size), ColOK(size)}

\* a value of every dynamic type
TypedValues == {IntV(4), StrV(Plain), StrV(<<"1", "9">>), FloatV(9), BoolV(TRUE)}

\* rows of a typed column and a Text column, the first value of any dynamic type
TypedRows ==
    {[row |-> <<v, StrV(b)>>, schema |-> <<c, ColLABEL(a)>>] :
        v \in TypedValues, b \in {Plain, TwoLines}, a \in Sizes,
        c \in UNION {TypedColumns(x) : x \in Sizes}}

InitRow ==
    /\ Data = <<>>
    /\ Schema = <<>>
    /\ pre = Table(<<>>, <<>>)
    /\ op = NoCall
    /\ ret = NoRet
    /\ fault = FALSE
    /\ \/ \E schema \in RowSchemas : \E row \in Rows :
             fin = [row |-> row, schema |-> schema]
       \/ fin \in TypedRows
    /\ fout = [done |-> FALSE, s |-> <<>>]

\* getTableRow(row, schema): the string, or the panic of a type assertion
DoGetTableRow ==
    /\ ~fout.done
    /\ ~fault
    /\ IF getTableRowPanics(fin.row, fin.schema)
       THEN /\ fault' = TRUE
            /\ UNCHANGED fout
       ELSE /\ fout' = [done |-> TRUE, s |-> getTableRow(fin.row, fin.schema)]
            /\ UNCHANGED fault
    /\ UNCHANGED <<Data, Schema, op, pre, ret, fin>>

NextRow == DoGetTableRow

SpecRow == InitRow /\ [][NextRow]_vars

---------------------------------------------------------------------------
(* The functions of the package applied to a table *)

Quoted == <<"a", "\"", "\\", "<", "b">>

\* a value that, with the name of its column, is wider than DefaultFoldAtLength
Long == Tuple([i \in 1..(DefaultFoldAtLength - 4) |-> "x"])

\* tables whose values hold quotes, backslashes and angle brackets, and a table
\* with two columns of one name
PureShapes ==
    Shapes
    \cup {[schema |-> <<ColLABEL(5), ColID(1)>>,
           rows |-> {<<StrV(Quoted), IntV(4)>>, <<StrV(Coloured), IntV(120)>>,
                     <<StrV(TwoLines), IntV(4)>>}]}
    \cup {[schema |-> <<ColLABEL(1), ColLABEL(5)>>,
           rows |-> {<<StrV(Plain), StrV(TwoLines)>>, <<StrV(Plain), StrV(Plain)>>,
                     <<StrV(Quoted), StrV(<<>>)>>}]}
    \cup {[schema |-> <<ColLABEL(1), ColID(1)>>,
           rows |-> {<<StrV(Long), IntV(4)>>, <<StrV(Plain), IntV(120)>>}]}
    \cup {[schema |-> <<ColUNITNO(1), ColLABEL(1), ColINST(5)>>,
           rows |-> {<<IntV(4), StrV(Coloured), FloatV(9)>>,
                     <<IntV(120), StrV(TwoLines), FloatV(82)>>,
                     <<IntV(4), StrV(Percents), FloatV(82)>>}]}

NoResult == [fn |-> ""]

InitPure ==
    /\ \E shape \in PureShapes : \E data \in TablesOf(shape) :
          /\ Schema = shape.schema
          /\ Data = data
          /\ pre = Table(data, shape.schema)
    /\ op = NoCall
    /\ ret = NoRet
    /\ fault = FALSE
    /\ fin = <<>>
    /\ fout = NoResult

\* getTableAsJSONString(t.Data, t.Schema)
DoGetTableAsJSONString ==
    /\ fout' = [fn |-> "getTableAsJSONString", s |-> getTableAsJSONString(Data, Schema)]
    /\ UNCHANGED <<Data, Schema, op, pre, ret, fault, fin>>

\* getFoldedTableAsString(t.Data, t.Schema), with the one-column table it builds
DoGetFoldedTableAsString ==
    /\ \E table \in {FoldedTable(Data, Schema)} :
          fout' = [fn |-> "getFoldedTableAsString", s |-> TableAsString(table),
                   table |-> table]
    /\ UNCHANGED <<Data, Schema, op, pre, ret, fault, fin>>

\* TransposeTable(*t): the table it returns; the argument is a copy of the
\* Table value and no row of it is written
DoTransposeTable ==
    /\ fout' = [fn |-> "TransposeTable", table |-> TransposeTable(Table(Data, Schema))]
    /\ UNCHANGED <<Data, Schema, op, pre, ret, fault, fin>>

\* t.RenderTransposedTable(tableName, topLine, format): what it returns and the
\* schema it leaves, or its panic
DoRenderTransposed ==
    /\ \E c \in TransposedCalls :
          IF RenderTransposedTablePanics(Data, Schema, c[3])
          THEN fout' = [fn |-> "RenderTransposedTable", call |-> c, fault |-> TRUE,
                        s |-> <<>>, err |-> "", Schema |-> Schema]
          ELSE \E r \in {RenderTransposedTable(Data, Schema, c[1], c[2], c[3])} :
                   fout' = [fn |-> "RenderTransposedTable", call |-> c, fault |-> FALSE,
                            s |-> r.s, err |-> r.err, Schema |-> r.Schema]
    /\ UNCHANGED <<Data, Schema, op, pre, ret, fault, fin>>

\* the column widths a schema is given
Widths == {0, 1, 5, 12}

\* getTableDelimiter(schema) for the columns of the table at any widths
DoGetTableDelimiter ==
    /\ \E w \in [1..Len(Schema) -> Widths] :
          \E schema \in {Tuple([i \in 1..Len(Schema) |->
                                   [Schema[i] EXCEPT !.FieldSize = w[i]]])} :
              fout' = [fn |-> "getTableDelimiter", schema |-> schema,
                       s |-> getTableDelimiter(schema)]
    /\ UNCHANGED <<Data, Schema, op, pre, ret, fault, fin>>

\* the widths of n columns: all alike, or growing from column to column
WidthRows(n) ==
    {[i \in 1..n |-> w] : w \in Widths} \cup {[i \in 1..n |-> <<1, 5, 12>>[i]]}

\* getTableHeader(schema) for the columns of the table at any widths; the
\* schema is read only (alteredSchema is a new slice)
DoGetTableHeader ==
    /\ \E w \in WidthRows(Len(Schema)) :
          \E schema \in {Tuple([i \in 1..Len(Schema) |->
                                   [Schema[i] EXCEPT !.FieldSize = w[i]]])} :
              fout' = [fn |-> "getTableHeader", schema |-> schema,
                       s |-> getTableHeader(schema)]
    /\ UNCHANGED <<Data, Schema, op, pre, ret, fault, fin>>

\* getRowSize(t.Data, schema) for the columns of the table at any widths;
\* data[0] of a table without rows is an index out of range
DoGetRowSize ==
    /\ \E w \in WidthRows(Len(Schema)) :
          \E schema \in {Tuple([i \in 1..Len(Schema) |->
                                   [Schema[i] EXCEPT !.FieldSize = w[i]]])} :
              fout' = [fn |-> "getRowSize", schema |-> schema, fault |-> Len(Data) = 0,
                       n |-> IF Len(Data) = 0 THEN 0 ELSE getRowSize(Data, schema)]
    /\ UNCHANGED <<Data, Schema, op, pre, ret, fault, fin>>

NextPure ==
    \/ DoGetTableAsJSONString
    \/ DoGetTableDelimiter
    \/ DoRenderTransposed
    \/ DoTransposeTable
    \/ DoGetFoldedTableAsString

SpecPure == InitPure /\ [][NextPure]_vars

---------------------------------------------------------------------------
(* Plain-text rendering at every kind of fold threshold, of the tables of    *)
(* at most one row                                                           *)

Thresholds == {-1, 0, 3, DefaultFoldAtLength}

InitSmall ==
    /\ \E shape \in Shapes : \E data \in UNION {[1..n -> shape.rows] : n \in 0..1} :
          /\ Schema = shape.schema
          /\ Data = data
          /\ pre = Table(data, shape.schema)
    /\ op = NoCall
    /\ ret = NoRet
    /\ fault = FALSE
    /\ fin = <<>>
    /\ fout = <<>>

\* t.RenderTableFoldable(tableName, topLine, "", foldAtLength)
DoRenderTableFoldableText ==
    /\ ~fault
    /\ \E tableName \in {Emp, <<>>} : \E topLine \in {Top, <<>>} :
       \E foldAtLength \in Thresholds :
          \E r \in {RenderTableFoldable(Data, Schema, tableName, topLine, "", foldAtLength)} :
              /\ op' = Call("RenderTableFoldable", tableName, topLine, "", foldAtLength, <<>>)
              /\ Schema' = r.Schema
              /\ ret' = [s |-> r.s, err |-> r.err]
    /\ pre' = Table(Data, Schema)
    /\ UNCHANGED <<Data, fault, fin, fout>>

NextSmall ==
    \/ DoRenderTableFoldableText
    \/ DoRenderTable

SpecSmall == InitSmall /\ [][NextSmall]_vars

---------------------------------------------------------------------------
\* the header line and the row measurement alone, on the same tables
NextMeasure ==
    \/ DoGetTableHeader
    \/ DoGetRowSize

SpecMeasure == InitPure /\ [][NextMeasure]_vars

---------------------------------------------------------------------------
(* The sorter on columns of every type: dates that do not fit the layout,    *)
(* Boolean columns and columns of type TypeInterface                         *)

ColWHEN(size) == SchemaField(<<"W", "H", "E", "N">>, TypeDateTime, size, 0, <<>>)

Malformed == <<"x", "9">>
Short == <<"1">>

SortShapes ==
    {[schema |-> <<ColDATE(1), ColOK(1)>>,
      rows |-> {<<StrV(<<"1", "9">>), BoolV(TRUE)>>, <<StrV(<<"2", "1">>), BoolV(FALSE)>>,
                <<StrV(Malformed), BoolV(TRUE)>>, <<StrV(<<"2", "0">>), BoolV(TRUE)>>}],
     [schema |-> <<ColWHEN(1), ColID(1)>>,
      rows |-> {<<StrV(<<"1", "9">>), IntV(4)>>, <<StrV(<<"2", "1">>), IntV(4)>>,
                <<StrV(Short), IntV(120)>>, <<StrV(Malformed), IntV(4)>>}],
     [schema |-> <<ColANY(1), ColLABEL(1)>>,
      rows |-> {<<IntV(4), StrV(Plain)>>, <<StrV(Plain), StrV(Plain)>>,
                <<IntV(120), StrV(<<>>)>>}]}

InitSort ==
    /\ \E shape \in SortShapes : \E data \in TablesOf(shape) :
          /\ Schema = shape.schema
          /\ Data = data
          /\ pre = Table(data, shape.schema)
    /\ op = NoCall
    /\ ret = NoRet
    /\ fault = FALSE
    /\ fin = <<>>
    /\ fout = NoResult

\* the comparator OrderBy installs for one key column, called on the values of
\* two rows in both orders as the loop of Less does
DoCallLess ==
    /\ ~fault
    /\ \E index \in 1..Len(Schema) : \E i, j \in 1..Len(Data) :
          fout' = [fn |-> "less", field |-> Schema[index],
                   a |-> Data[i][index], b |-> Data[j][index],
                   ab |-> CallLess(Schema[index].FieldType, Data[i][index],
                                   Data[j][index], Schema[index]),
                   ba |-> CallLess(Schema[index].FieldType, Data[j][index],
                                   Data[i][index], Schema[index])]
    /\ UNCHANGED <<Data, Schema, op, pre, ret, fault, fin>>

NextSort ==
    \/ DoSort
    \/ DoCallLess

SpecSort == InitSort /\ [][NextSort]_vars

---------------------------------------------------------------------------
(* Properties of the column widths *)

FieldSizes(schema) == Tuple([i \in 1..Len(schema) |-> schema[i].FieldSize])

ValidFormats == {"", "json", "JSON", "csv", "CSV", "yaml", "YAML"}

\* the last call was t.RenderTable or t.RenderTableFoldable
IsRender == op.name \in {"RenderTable", "RenderTableFoldable"}

SetMax(S) == CHOOSE m \in S : \A x \in S : x <= m

\* the lengths AdjustFieldSizes compares for column i
ColumnWidths(data, schema, i) ==
    {schema[i].FieldSize, Len(schema[i].FieldName)}
    \cup {getCellSize(data[r][i], schema[i]) : r \in 1..Len(data)}

\* C1: AdjustFieldSizes is idempotent: a call that directly follows another
\* AdjustFieldSizes call on the same table, the data unchanged in between,
\* leaves every column's FieldSize at its value after the first call.
AdjustIdempotent ==
    [][(op.name = "AdjustFieldSizes" /\ op'.name = "AdjustFieldSizes")
          => FieldSizes(Schema') = FieldSizes(Schema)]_vars

\* AdjustFieldSizes has just run on a table whose columns an earlier call had
\* widened, and has left them as they were
AdjustIdempotentWitness ==
    /\ op.name = "AdjustFieldSizes"
    /\ Len(Data) > 0
    /\ pre = Table(Data, Schema)
    /\ \A i \in 1..Len(Schema) : Schema[i].FieldSize \notin Sizes

\* C2: AdjustFieldSizes sets each column's FieldSize from M, the maximum of the
\* column's current FieldSize, the length of its FieldName and getCellSize of
\* every row's value in the column (the widest line of a multi-line Text
\* value): M + 1 when M is greater than the current FieldSize, else unchanged.
AdjustSetsWidths ==
    op.name = "AdjustFieldSizes" =>
        \A i \in 1..Len(Schema) :
            \E M \in {SetMax(ColumnWidths(pre.Data, pre.Schema, i))} :
                Schema[i].FieldSize = IF M > pre.Schema[i].FieldSize THEN M + 1
                                      ELSE pre.Schema[i].FieldSize

\* one column was widened to the widest line of a multi-line Text value plus one,
\* another holds a value exactly as wide as the column and kept its size
AdjustSetsWidthsWitness ==
    /\ op.name = "AdjustFieldSizes"
    /\ \E i \in 1..Len(Schema) : \E r \in 1..Len(Data) :
          /\ pre.Schema[i].FieldType = TypeString
          /\ Len(Split(Data[r][i].s)) > 1
          /\ Schema[i].FieldSize > pre.Schema[i].FieldSize
          /\ Schema[i].FieldSize = getCellSize(Data[r][i], Schema[i]) + 1
    /\ \E i \in 1..Len(Schema) : \E r \in 1..Len(Data) :
          /\ getCellSize(Data[r][i], Schema[i]) = pre.Schema[i].FieldSize
          /\ Schema[i].FieldSize = pre.Schema[i].FieldSize

\* C3: no AdjustFieldSizes, RenderTable, RenderTableFoldable (any format, any
\* fold threshold), RenderTransposedTable or Sort call decreases the FieldSize of
\* a column, so after any sequence of them every FieldSize is at least its value
\* before the sequence.
WidthsNeverShrink ==
    [][/\ Len(Schema') = Len(Schema)
       /\ \A i \in 1..Len(Schema) : Schema'[i].FieldSize >= Schema[i].FieldSize]_vars

\* a rendering has just widened a column
WidthsNeverShrinkWitness ==
    /\ op.name = "RenderTableFoldable"
    /\ \E i \in 1..Len(Schema) : Schema[i].FieldSize > pre.Schema[i].FieldSize

---------------------------------------------------------------------------
(* Properties of getCellSize on coloured values *)

\* C4, as stated: for any text value v, getCellSize of v with control sequences
\* inserted before, after or inside it equals getCellSize of v, and decolorize
\* of the coloured string equals v.
ColourInvariantAnyValue ==
    fin.n > 0 =>
        /\ fout.size = getCellSize(StrV(fin.v), fin.field)
        /\ fout.plain = fin.v

\* C4, for the values it holds for: when v itself holds no complete control
\* sequence (decolorize(v) = v), getCellSize of v with control sequences inserted
\* before, after or inside it equals getCellSize of v, and decolorize of the
\* coloured string equals v.
ColourInvariant ==
    (fin.n > 0 /\ decolorize(fin.v) = fin.v) =>
        /\ fout.size = getCellSize(StrV(fin.v), fin.field)
        /\ fout.plain = fin.v

\* a multi-line value with a sequence inside it and one at its end
ColourInvariantWitness ==
    /\ fin.v = TwoLines
    /\ fin.n = 2
    /\ \E g \in 2..Len(fin.v) : fin.ins[g] # <<>>
    /\ fin.ins[Len(fin.v) + 1] # <<>>
    /\ fout.c # fin.v
    /\ fout.plain = fin.v

---------------------------------------------------------------------------
(* Properties of the sort *)

\* the instant a DateTime value names, in the column's layout or the default one
Instant(d, field) ==
    ParseTime(IF field.FieldFormat # <<>> THEN field.FieldFormat ELSE DefaultTimeFormat,
              d.s).t

\* a is before b in the order of the column's type
KeyBefore(a, b, field) ==
    CASE field.FieldType = TypeString -> StrLess(a.s, b.s)
      [] field.FieldType = TypeDateTime -> Instant(a, field) < Instant(b, field)
      [] OTHER -> a.n < b.n

KeyTie(a, b, field) == ~KeyBefore(a, b, field) /\ ~KeyBefore(b, a, field)

\* row p is before row q in the lexicographic order of the key columns idx
RowBefore(p, q, schema, idx) ==
    \E k \in 1..Len(idx) :
        /\ KeyBefore(p[idx[k]], q[idx[k]], schema[idx[k]])
        /\ \A j \in 1..(k - 1) : KeyTie(p[idx[j]], q[idx[j]], schema[idx[j]])

KeyColumns(schema, fieldNames) ==
    Tuple([k \in 1..Len(fieldNames) |-> FieldIndex(schema, fieldNames[k])])

\* C5: after TableSorter(schema).OrderBy(k1,...,kn).Sort(data) with key columns
\* of type Integer, Text, Float or DateTime, the rows are in non-decreasing
\* lexicographic order of the key tuple: no row is before the row in front of
\* it (DateTime compared chronologically in the column's format or the default).
SortOrdersRows ==
    (op.name = "Sort" /\ ~fault) =>
        \A r \in 1..(Len(Data) - 1) :
            ~RowBefore(Data[r + 1], Data[r], Schema, KeyColumns(Schema, op.fieldNames))

\* a sort on two keys has reordered rows that tie on the first key and differ
\* on the second, a DateTime column whose layout is not most-significant first
SortOrdersRowsWitness ==
    /\ op.name = "Sort"
    /\ ~fault
    /\ Len(op.fieldNames) = 2
    /\ Data # pre.Data
    /\ \E idx \in {KeyColumns(Schema, op.fieldNames)} :
          /\ Schema[idx[2]].FieldType = TypeDateTime
          /\ KeyTie(Data[1][idx[1]], Data[2][idx[1]], Schema[idx[1]])
          /\ KeyBefore(Data[1][idx[2]], Data[2][idx[2]], Schema[idx[2]])
          /\ StrLess(Data[2][idx[2]].s, Data[1][idx[2]].s)

---------------------------------------------------------------------------
(* Properties of the plain-text rendering *)

RECURSIVE SumSeq(_)
SumSeq(xs) == IF xs = <<>> THEN 0 ELSE Head(xs) + SumSeq(Tail(xs))

\* the summed cell width of the first row
FirstRowWidth(data, schema) ==
    SumSeq(Tuple([i \in 1..Len(schema) |-> getCellSize(data[1][i], schema[i])]))

\* the table the last call received was non-empty and its first row wider than
\* the fold threshold of the call
Folds == Len(pre.Data) > 0 /\ FirstRowWidth(pre.Data, pre.Schema) > op.foldAtLength

StartsWith(s, prefix) == Len(s) >= Len(prefix) /\ SubSeq(s, 1, Len(prefix)) = prefix

Blank(s) == \A k \in 1..Len(s) : s[k] = " "

\* the header line among the lines of a rendering: behind the top line, if
\* any, and the first delimiter line
HeaderOf(lines) == lines[IF op.topLine = <<>> THEN 2 ELSE 3]

\* the cells of a physical line: the pieces between its delimiters
CellsOf(line) ==
    \E parts \in {SplitOn(line, "|")} :
        /\ Len(parts) >= 3
        /\ parts[1] = <<>>
        /\ parts[Len(parts)] = <<>>

Cell(line, i) == SplitOn(line, "|")[i + 1]

NumCells(line) == Len(SplitOn(line, "|")) - 2

\* a header line names exactly the columns of names, in order
IsHeaderOf(line, names) ==
    /\ CellsOf(line)
    /\ NumCells(line) = Len(names)
    /\ \A i \in 1..Len(names) :
          /\ StartsWith(Cell(line, i), <<" ">> \o names[i])
          /\ Blank(SubSeq(Cell(line, i), Len(names[i]) + 2, Len(Cell(line, i))))

ColumnNames(schema) == Tuple([i \in 1..Len(schema) |-> schema[i].FieldName])

TotalLine(n, label) ==
    <<"T", "o", "t", "a", "l", ":", " ">> \o IntToStr(n) \o <<" ">> \o label

\* C6: plain-text rendering (format "") folds exactly when the table is
\* non-empty and the summed cell width of its first row is strictly greater than
\* the fold threshold: the output is then a single-column "Values" table, and
\* otherwise the bordered layout with the table's own columns; in both cases
\* the footer is "Total: N <label>", N the number of rows of the original table.
FoldsExactlyWhenWide ==
    (IsRender /\ op.format = "") =>
        \E lines \in {Split(ret.s)} :
            /\ ret.err = ""
            /\ IF Folds THEN IsHeaderOf(HeaderOf(lines), << <<"V", "a", "l", "u", "e", "s">> >>)
               ELSE IsHeaderOf(HeaderOf(lines), ColumnNames(Schema))
            /\ Len(lines) >= 3
            /\ lines[Len(lines) - 2] = TotalLine(Len(pre.Data), op.tableName)

\* a two-row table folded at a small threshold, and reported with both rows
FoldsExactlyWhenWideWitness ==
    /\ op.name = "RenderTableFoldable"
    /\ op.format = ""
    /\ Len(pre.Data) = 2
    /\ Folds
    /\ ret.s # <<>>

\* the rows of a table as getTableAsString writes them, a line break behind each
RowsBlock(data, schema) ==
    Concat(Tuple([r \in 1..Len(data) |-> getTableRow(data[r], schema) \o <<NL>>]))

\* C8: getTableAsString emits, in this order and each terminated by a newline,
\* the delimiter line, the header line, the delimiter line, the rendering of
\* each data row in the order of the data, and a final delimiter line;
\* RenderTableFoldable appends the footer line "Total: <row count> <label>".
\* Stated of the renderings that do not fold, whose table block is
\* getTableAsString of the table itself.
TableBlockInOrder ==
    (IsRender /\ op.format = "" /\ ~Folds) =>
        ret.s = (IF op.topLine # <<>> THEN op.topLine \o <<NL>> ELSE <<>>)
                \o getTableDelimiter(Schema) \o <<NL>>
                \o getTableHeader(Schema) \o <<NL>>
                \o getTableDelimiter(Schema) \o <<NL>>
                \o RowsBlock(Data, Schema)
                \o getTableDelimiter(Schema) \o <<NL>>
                \o TotalLine(Len(Data), op.tableName) \o <<NL, NL>>

\* a table of two different rows, one of them of several lines, rendered unfolded
\* behind a top line
TableBlockInOrderWitness ==
    /\ op.name = "RenderTable"
    /\ op.format = ""
    /\ op.topLine # <<>>
    /\ ~Folds
    /\ Len(Data) = 2
    /\ Data[1] # Data[2]
    /\ \E r \in 1..2 : Len(Split(getTableRow(Data[r], Schema))) > 1
    /\ ret.s # <<>>

TextFormatRenders ==
    (op.name = "RenderTable" /\ op.format = "text") =>
        /\ ret.err = ""
        /\ ret.s = RenderTable(pre.Data, pre.Schema, op.tableName, op.topLine, "").s

---------------------------------------------------------------------------
(* Properties of getTableRow *)

\* the number of newline-separated sub-lines of a cell: 1 unless it is Text
SubLines(d, field) == IF field.FieldType = TypeString THEN Len(Split(d.s)) ELSE 1

\* the rendered width of cell i: its widest sub-line over the first n physical
\* lines, without the colour sequences
RenderedWidth(lines, i, n) ==
    SetMax({Len(decolorize(Cell(lines[y], i))) : y \in 1..n})

\* C7: getTableRow renders a row as exactly H physical lines, H the maximum
\* number of newline-separated sub-lines over the row's Text cells (at least
\* 1); a cell with fewer than H sub-lines is extended at the bottom with lines
\* made only of spaces whose width equals that cell's own rendered width.
RowHeightAndFillers ==
    fout.done =>
        \E lines \in {Split(fout.s)} :
            /\ Len(lines) = SetMax({SubLines(fin.row[i], fin.schema[i]) :
                                        i \in 1..Len(fin.schema)})
            /\ \A y \in 1..Len(lines) :
                  CellsOf(lines[y]) /\ NumCells(lines[y]) = Len(fin.schema)
            /\ \A i \in 1..Len(fin.schema) :
                  \E n \in {SubLines(fin.row[i], fin.schema[i])} :
                      \A y \in (n + 1)..Len(lines) :
                          /\ Blank(Cell(lines[y], i))
                          /\ Len(Cell(lines[y], i)) = RenderedWidth(lines, i, n)

---------------------------------------------------------------------------
(* Properties of the sort on unknown column names *)

\* some name of the key list is the name of no column
UnknownName(schema, fieldNames) ==
    \E k \in 1..Len(fieldNames) : FieldIndex(schema, fieldNames[k]) = 0

\* C11: when a name passed to OrderBy matches no column of the schema, the
\* chain TableSorter(schema).OrderBy(unknown).Sort(data) does not fault and
\* leaves the order of data unchanged.
UnknownNameNoFault ==
    (op.name = "Sort" /\ UnknownName(pre.Schema, op.fieldNames)) =>
        /\ ~fault
        /\ Data = pre.Data

---------------------------------------------------------------------------
(* Frame of the render calls *)

StructuredFormats == {"json", "JSON", "csv", "CSV", "yaml", "YAML"}

\* two schemas that differ at most in the FieldSize of their columns
SameButSizes(a, b) ==
    /\ Len(a) = Len(b)
    /\ \A i \in 1..Len(a) : [a[i] EXCEPT !.FieldSize = 0] = [b[i] EXCEPT !.FieldSize = 0]

\* C12: rendering in the json, csv or yaml formats leaves the table unchanged
\* (no column width is adjusted, no row altered or reordered); plain-text
\* rendering, folded or not, changes nothing of the table except the FieldSize
\* of its columns.
RenderFrame ==
    IsRender =>
        /\ Data = pre.Data
        /\ op.format \in StructuredFormats => Schema = pre.Schema
        /\ op.format = "" => SameButSizes(Schema, pre.Schema)

\* a structured rendering of two different rows whose columns a plain-text
\* rendering would widen
RenderFrameWitness ==
    /\ IsRender
    /\ op.format \in StructuredFormats
    /\ Len(Data) = 2
    /\ Data[1] # Data[2]
    /\ AdjustFieldSizes(Data, Schema) # Schema
    /\ ret.s # <<>>

---------------------------------------------------------------------------
(* Properties of the structured serialization, stated with a reader of JSON *)
(* texts that reads an array of objects as encoding/json's decoder reads it  *)
(* into []map[string]interface{}; every value is kept as the text that fmt's *)
(* "%v" gives of the decoded value                                           *)

JSONWhite == {" ", TAB, NL}
JSONDelims == JSONWhite \cup {",", "}", "]"}

\* the first index from i on that holds no white space (Len(s)+1 if none)
SkipWhite(s, i) ==
    CHOOSE j \in i..(Len(s) + 1) :
        /\ \A k \in i..(j - 1) : s[k] \in JSONWhite
        /\ j <= Len(s) => s[j] \notin JSONWhite

\* the number of backslashes that end just before index p
Backslashes(s, p) ==
    CHOOSE n \in 0..(p - 1) :
        /\ \A k \in (p - n)..(p - 1) : s[k] = "\\"
        /\ p - n - 1 >= 1 => s[p - n - 1] # "\\"

\* the quote at j closes a string: it is not escaped
ClosingQuote(s, j) == s[j] = "\"" /\ Backslashes(s, j) % 2 = 0

\* the closing quote of the string that opens at i, 0 when it is not closed
StringClose(s, i) ==
    IF \E j \in (i + 1)..Len(s) : ClosingQuote(s, j)
    THEN CHOOSE j \in (i + 1)..Len(s) :
             /\ ClosingQuote(s, j)
             /\ \A k \in (i + 1)..(j - 1) : ~ClosingQuote(s, k)
    ELSE 0

\* the backslash at p starts an escape
EscapeStart(s, p) == s[p] = "\\" /\ Backslashes(s, p) % 2 = 0

JSONUnicode(h) ==
    CASE h = <<"0", "0", "1", "b">> -> ESC
      [] h = <<"0", "0", "3", "c">> -> "<"
      [] h = <<"0", "0", "3", "e">> -> ">"
      [] h = <<"0", "0", "2", "6">> -> "&"
      [] OTHER -> "?"

\* the byte the escape that starts at p stands for
JSONUnescapeAt(s, p) ==
    CASE s[p + 1] = "n" -> NL
      [] s[p + 1] = "t" -> TAB
      [] s[p + 1] = "u" -> JSONUnicode(SubSeq(s, p + 2, p + 5))
      [] OTHER -> s[p + 1]

\* byte p of the string that opens at i belongs to an escape that starts before p
InEscape(s, i, p) ==
    \/ p - 1 > i /\ EscapeStart(s, p - 1)
    \/ \E e \in Max(i + 1, p - 5)..(p - 2) : EscapeStart(s, e) /\ s[e + 1] = "u"

\* the string between the quotes at i and j
JSONUnquote(s, i, j) ==
    FlatRange(LAMBDA p : IF InEscape(s, i, p) THEN <<>>
                         ELSE IF s[p] = "\\" THEN <<JSONUnescapeAt(s, p)>>
                         ELSE <<s[p]>>,
              i + 1, j - 1)

\* the last index of the bare token (number, true, false, null) that starts at i
TokenEnd(s, i) ==
    (CHOOSE j \in i..(Len(s) + 1) :
        /\ \A k \in i..(j - 1) : s[k] \notin JSONDelims
        /\ j <= Len(s) => s[j] \in JSONDelims) - 1

RECURSIVE StrToNat(_)
StrToNat(ds) ==
    IF ds = <<>> THEN 0
    ELSE 10 * StrToNat(SubSeq(ds, 1, Len(ds) - 1)) + (Ord(ds[Len(ds)]) - Ord("0"))

\* the float64 a number token decodes to, in quarters
NumberQuarters(whole, frac) ==
    4 * StrToNat(whole) + (4 * StrToNat(frac)) \div Pow10(Len(frac))

\* the number token split at its decimal point
NumberOf(tok, dots) ==
    IF dots = {} THEN NumberQuarters(tok, <<>>)
    ELSE NumberQuarters(SubSeq(tok, 1, SetMin(dots) - 1),
                        SubSeq(tok, SetMin(dots) + 1, Len(tok)))

\* "%v" of the value a bare token decodes to
BareText(tok) ==
    IF IsDigit(tok[1])
    THEN FormatV(FloatV(NumberOf(tok, {k \in 1..Len(tok) : tok[k] = "."})))
    ELSE IF tok = <<"n", "u", "l", "l">> THEN <<"<", "n", "i", "l", ">">>
    ELSE tok

JSONFail == [ok |-> FALSE, text |-> <<>>, pairs |-> <<>>, recs |-> <<>>, next |-> 0]

JSONStringAt(s, i, j) ==
    IF j = 0 THEN JSONFail
    ELSE [JSONFail EXCEPT !.ok = TRUE, !.text = JSONUnquote(s, i, j), !.next = j + 1]

JSONBareAt(s, i, j) ==
    IF j < i THEN JSONFail
    ELSE [JSONFail EXCEPT !.ok = TRUE, !.text = BareText(SubSeq(s, i, j)), !.next = j + 1]

\* the value that starts at i
JSONValue(s, i) ==
    IF i > Len(s) THEN JSONFail
    ELSE IF s[i] = "\"" THEN JSONStringAt(s, i, StringClose(s, i))
    ELSE JSONBareAt(s, i, TokenEnd(s, i))

RECURSIVE JSONMembersFrom(_, _, _)

JSONMemberNext(s, i, pairs) ==
    IF i <= Len(s) /\ s[i] = "," THEN JSONMembersFrom(s, SkipWhite(s, i + 1), pairs)
    ELSE IF i <= Len(s) /\ s[i] = "}" THEN JSONMembersFrom(s, i, pairs)
    ELSE JSONFail

JSONMemberValue(s, key, v, pairs) ==
    IF ~v.ok THEN JSONFail
    ELSE JSONMemberNext(s, SkipWhite(s, v.next), Append(pairs, <<key, v.text>>))

JSONMemberColon(s, key, c, pairs) ==
    IF c > Len(s) \/ s[c] # ":" THEN JSONFail
    ELSE JSONMemberValue(s, key, JSONValue(s, SkipWhite(s, c + 1)), pairs)

JSONMemberKey(s, i, j, pairs) ==
    IF j = 0 THEN JSONFail
    ELSE JSONMemberColon(s, JSONUnquote(s, i, j), SkipWhite(s, j + 1), pairs)

\* the members of an object from index i on (i holds no white space)
JSONMembersFrom(s, i, pairs) ==
    IF i > Len(s) THEN JSONFail
    ELSE IF s[i] = "}" THEN [JSONFail EXCEPT !.ok = TRUE, !.pairs = pairs, !.next = i + 1]
    ELSE IF s[i] # "\"" THEN JSONFail
    ELSE JSONMemberKey(s, i, StringClose(s, i), pairs)

RECURSIVE JSONObjectsFrom(_, _, _)

JSONObjectNext(s, i, recs) ==
    IF i <= Len(s) /\ s[i] = "," THEN JSONObjectsFrom(s, SkipWhite(s, i + 1), recs)
    ELSE IF i <= Len(s) /\ s[i] = "]" THEN JSONObjectsFrom(s, i, recs)
    ELSE JSONFail

JSONObjectDone(s, m, recs) ==
    IF ~m.ok THEN JSONFail
    ELSE JSONObjectNext(s, SkipWhite(s, m.next), Append(recs, m.pairs))

\* the objects of an array from index i on (i holds no white space)
JSONObjectsFrom(s, i, recs) ==
    IF i > Len(s) THEN JSONFail
    ELSE IF s[i] = "]"
         THEN [JSONFail EXCEPT !.ok = SkipWhite(s, i + 1) > Len(s), !.recs = recs]
    ELSE IF s[i] # "{" THEN JSONFail
    ELSE JSONObjectDone(s, JSONMembersFrom(s, SkipWhite(s, i + 1), <<>>), recs)

JSONArrayAt(s, i) ==
    IF i > Len(s) \/ s[i] # "[" THEN JSONFail
    ELSE JSONObjectsFrom(s, SkipWhite(s, i + 1), <<>>)

\* json.Unmarshal of s: whether s is an array of objects, and its records, each
\* the list of its <<name, text of the value>> members
ParseJSON(s) == JSONArrayAt(s, SkipWhite(s, 1))

\* the record has a member of that name; its value (of the last such member)
HasField(rec, name) == \E k \in 1..Len(rec) : rec[k][1] = name

FieldOf(rec, name) ==
    rec[CHOOSE k \in 1..Len(rec) :
            /\ rec[k][1] = name
            /\ \A l \in (k + 1)..Len(rec) : rec[l][1] # name][2]


\* no two columns carry the same FieldName
DistinctNames(schema) ==
    \A i, j \in 1..Len(schema) : schema[i].FieldName = schema[j].FieldName => i = j

\* the records read back hold, row by row, every column's value under the
\* column's FieldName
RecordsMatch(recs, data, schema) ==
    /\ Len(recs) = Len(data)
    /\ \A r \in 1..Len(data) : \A i \in 1..Len(schema) :
          /\ HasField(recs[r], schema[i].FieldName)
          /\ FieldOf(recs[r], schema[i].FieldName) = FormatV(data[r][i])

\* the text read back is an array of objects that hold, row by row, every
\* column's value under the column's FieldName
ReadsBackAs(parsed, data, schema) == parsed.ok /\ RecordsMatch(parsed.recs, data, schema)

\* C13 as stated, for any schema: parsing the output of getTableAsJSONString
\* yields one record per row, in row order, whose field named by a column's
\* FieldName equals, as a string, the row's value in that column.
JSONRoundTripAnySchema ==
    fout.fn = "getTableAsJSONString" => ReadsBackAs(ParseJSON(fout.s), Data, Schema)

\* C13: for a schema whose columns have pairwise distinct FieldNames, parsing
\* the output of getTableAsJSONString(data, schema) yields one record per row,
\* in row order, in which for every column the field named by the column's
\* FieldName has a value equal, under string equality, to that row's value in
\* that column.
JSONRoundTrip ==
    (fout.fn = "getTableAsJSONString" /\ DistinctNames(Schema)) =>
        ReadsBackAs(ParseJSON(fout.s), Data, Schema)

\* two different rows, one with a value that holds a quote and a backslash,
\* read back from their JSON text
JSONRoundTripWitness ==
    /\ fout.fn = "getTableAsJSONString"
    /\ DistinctNames(Schema)
    /\ Len(Data) = 2
    /\ Data[1] # Data[2]
    /\ \E i \in 1..Len(Schema) : Data[1][i] = StrV(Quoted)
    /\ \E i \in 1..Len(Schema) : Data[2][i] = StrV(Coloured)
    /\ Len(ParseJSON(fout.s).recs) = 2

---------------------------------------------------------------------------
(* Properties of mistyped values *)

\* the dynamic type the logical type of a column stands for ("" for Opaque,
\* which takes a value of any type)
DeclaredKind(type) ==
    CASE type = TypeInt -> "int"
      [] type = TypeString -> "string"
      [] type = TypeFloat -> "float64"
      [] type = TypeDateTime -> "string"
      [] type = TypeBool -> "bool"
      [] OTHER -> ""

\* the runtime type of the value disagrees with the declared type of the column
Mismatch(d, field) ==
    DeclaredKind(field.FieldType) # "" /\ d.k # DeclaredKind(field.FieldType)

\* C14: for every logical type of column, when a row value's runtime type
\* disagrees with the column's declared type, the plain-text rendering of the
\* row aborts: getTableRow returns no string for it.
TypeMismatchAborts ==
    (\E i \in 1..Len(fin.schema) : Mismatch(fin.row[i], fin.schema[i])) => ~fout.done

---------------------------------------------------------------------------
(* Repeated rendering *)

\* C15: two successive plain-text RenderTableFoldable calls on the same table
\* with the same arguments and no change in between return identical strings,
\* and the second call changes nothing in the table.
RenderRepeatable ==
    [][(op.name = "RenderTableFoldable" /\ op.format = "" /\ op' = op)
          => (ret' = ret /\ Data' = Data /\ Schema' = Schema)]_vars

\* a plain-text rendering of an unfolded table with rows has returned its string
\* and has left the columns, which an earlier call had widened, as they were
RenderRepeatableWitness ==
    /\ op.name = "RenderTableFoldable"
    /\ op.format = ""
    /\ ~Folds
    /\ Len(Data) = 2
    /\ pre = Table(Data, Schema)
    /\ \A i \in 1..Len(Schema) : Schema[i].FieldSize \notin Sizes
    /\ ret.s # <<>>

---------------------------------------------------------------------------
(* Alignment of coloured rows *)

\* C16: padding in getTableRow is based on the de-colorized length only: for
\* any row whose Text cells hold colour sequences on some sub-lines, all
\* sub-lines of one cell, filler lines included, have the same de-colorized
\* width, so all physical lines of the row have the same de-colorized length.
ColouredRowsAligned ==
    fout.done =>
        \E lines \in {Split(fout.s)} :
            /\ \A y \in 1..Len(lines) :
                  /\ CellsOf(lines[y])
                  /\ NumCells(lines[y]) = Len(fin.schema)
                  /\ Len(decolorize(lines[y])) = Len(decolorize(lines[1]))
            /\ \A i \in 1..Len(fin.schema) : \A y \in 1..Len(lines) :
                  Len(decolorize(Cell(lines[y], i))) = Len(decolorize(Cell(lines[1], i)))

---------------------------------------------------------------------------
(* Properties of the folded table *)

Values == <<"V", "a", "l", "u", "e", "s">>

\* a line of a record that opens a field: "- name: ..." or "  name: ..."
KeyLine(line) ==
    /\ Len(line) > 3
    /\ SubSeq(line, 1, 2) \in {<<"-", " ">>, <<" ", " ">>}
    /\ line[3] # " "
    /\ \E k \in 4..Len(line) : line[k] = ":"

KeyOf(line) == SubSeq(line, 3, SetMin({k \in 4..Len(line) : line[k] = ":"}) - 1)

\* the field names of a record text
RecordKeys(text) == {KeyOf(l) : l \in {x \in Range(Split(text)) : KeyLine(x)}}

\* the text is one record: its first line opens a list item and no other does
OneRecord(text) ==
    \E lines \in {Split(text)} :
        /\ StartsWith(lines[1], <<"-", " ">>)
        /\ \A y \in 2..Len(lines) : ~StartsWith(lines[y], <<"-", " ">>)

LowerCamelNames(schema) ==
    {ToLowerCamel(ToLower(schema[i].FieldName)) : i \in 1..Len(schema)}

\* the widest line over the cells of a one-column table of strings
WidestLine(data) ==
    SetMax({0} \cup UNION {{Len(l) : l \in Range(Split(data[r][1].s))} : r \in 1..Len(data)})

\* the text holds no colour sequence
NoColour(text) == \A i \in 1..Len(text) : MatchEnd(text, i) = 0

\* C17: getFoldedTableAsString produces a table with the single column
\* "Values" (Text, width at least 5, widened to the widest record line) whose
\* body holds exactly one cell per original row, in the original row order;
\* each cell is that row serialized as one record whose field names are the
\* lower-camel-cased column names and whose text contains no colour sequences.
FoldedTableShape ==
    fout.fn = "getFoldedTableAsString" =>
        /\ Len(fout.table.Schema) = 1
        /\ fout.table.Schema[1].FieldName = Values
        /\ fout.table.Schema[1].FieldType = TypeString
        /\ fout.table.Schema[1].FieldSize >= 5
        /\ fout.table.Schema[1].FieldSize > WidestLine(fout.table.Data)
        /\ Len(fout.table.Data) = Len(Data)
        /\ \A r \in 1..Len(Data) :
              /\ Len(fout.table.Data[r]) = 1
              /\ fout.table.Data[r][1] = StrV(getTableAsYAMLString(<<Data[r]>>, Schema))
              /\ OneRecord(fout.table.Data[r][1].s)
              /\ RecordKeys(fout.table.Data[r][1].s) = LowerCamelNames(Schema)
              /\ NoColour(fout.table.Data[r][1].s)
        /\ \E lines \in {Split(fout.s)} :
              /\ Len(lines) = 5 + SumSeq(Tuple([r \in 1..Len(Data) |->
                                     Len(Split(fout.table.Data[r][1].s))]))
              /\ lines[1] = getTableDelimiter(fout.table.Schema)
              /\ IsHeaderOf(lines[2], <<Values>>)
              /\ lines[3] = lines[1]
              /\ lines[Len(lines) - 1] = lines[1]
              /\ lines[Len(lines)] = <<>>
              /\ \A y \in 4..(Len(lines) - 2) :
                    /\ StartsWith(lines[y], DefaultDelimiter \o <<" ">>)
                    /\ lines[y][Len(lines[y])] = "|"

\* two different rows, one with a coloured value, of a table with a column name
\* of two words, folded into two records
FoldedTableShapeWitness ==
    /\ fout.fn = "getFoldedTableAsString"
    /\ Len(Data) = 2
    /\ Data[1] # Data[2]
    /\ \E i \in 1..Len(Schema) : Data[2][i] = StrV(Coloured)
    /\ \E i \in 1..Len(Schema) : Schema[i].FieldName = <<"U", "N", "I", "T", " ", "N", "O">>
    /\ <<"u", "n", "i", "t", "N", "o">> \in RecordKeys(fout.table.Data[1][1].s)
    /\ fout.table.Schema[1].FieldSize > 7

---------------------------------------------------------------------------
(* Properties of the transposition *)

\* C18: TransposeTable on a non-empty rectangular table returns a new table
\* whose data satisfies result[j][i] = input[i][j] for every row i and column
\* j, keeps the input's schema, and does not modify the input table's data; on
\* a table with no rows it returns the input table.
TransposeSwapsIndexes ==
    fout.fn = "TransposeTable" =>
        /\ Data = pre.Data
        /\ Schema = pre.Schema
        /\ fout.table.Schema = Schema
        /\ Len(Data) = 0 => fout.table = Table(Data, Schema)
        /\ Len(Data) > 0 =>
              /\ Len(fout.table.Data) = Len(Data[1])
              /\ \A j \in 1..Len(Data[1]) :
                    /\ Len(fout.table.Data[j]) = Len(Data)
                    /\ \A i \in 1..Len(Data) : fout.table.Data[j][i] = Data[i][j]

\* two different rows of three columns transposed into three rows of two cells
TransposeSwapsIndexesWitness ==
    /\ fout.fn = "TransposeTable"
    /\ Len(Data) = 2
    /\ Len(Schema) = 3
    /\ Data[1] # Data[2]
    /\ Len(fout.table.Data) = 3
    /\ fout.table.Data[3] = <<Data[1][3], Data[2][3]>>

---------------------------------------------------------------------------
(* Properties of the transposed rendering *)

\* the key/value pairs of the first row: the name of every column with the
\* string form of the first row's value in it
KeyValueRows(data, schema) ==
    Tuple([j \in 1..Len(schema) |->
              <<StrV(schema[j].FieldName), StrV(FormatV(data[1][j]))>>])

\* the bordered table of the pairs under the columns KEY and VALUE, with the
\* top line and the footer of the call
KeyValueTable(rows, schema, tableName, topLine) ==
    (IF topLine # <<>> THEN topLine \o <<NL>> ELSE <<>>)
    \o getTableDelimiter(schema) \o <<NL>>
    \o getTableHeader(schema) \o <<NL>>
    \o getTableDelimiter(schema) \o <<NL>>
    \o RowsBlock(rows, schema)
    \o getTableDelimiter(schema) \o <<NL>>
    \o TotalLine(Len(rows), tableName) \o <<NL, NL>>

\* the two columns KEY and VALUE, as wide as the pairs need
KeyValueSchema(rows) ==
    AdjustFieldSizes(rows,
        <<SchemaField(<<"K", "E", "Y">>, TypeString, 5, 0, <<>>),
          SchemaField(<<"V", "A", "L", "U", "E">>, TypeString, 5, 0, <<>>)>>)

\* the first pair, the name of the first column with its first value, is wider
\* than the fold threshold of RenderTable
FirstPairFolds(data, schema) ==
    Len(schema[1].FieldName) + getCellSize(StrV(FormatV(data[1][1])), ColLABEL(5))
        > DefaultFoldAtLength

\* what RenderTransposedTable returned is the KEY/VALUE table of the first row
ReturnsKeyValueTable ==
    /\ ~fout.fault
    /\ fout.err = ""
    /\ \E rows \in {KeyValueRows(Data, Schema)} :
          /\ Len(rows) = Len(Schema)
          /\ fout.s = KeyValueTable(rows, KeyValueSchema(rows), fout.call[1], fout.call[2])
    /\ fout.Schema = Schema
    /\ Data = pre.Data

\* what RenderTransposedTable returned is what RenderTable returns
ReturnsRenderTable ==
    /\ ~fout.fault
    /\ \E r \in {RenderTable(Data, Schema, fout.call[1], fout.call[2], fout.call[3])} :
          /\ fout.s = r.s
          /\ fout.err = r.err
          /\ fout.Schema = r.Schema

---------------------------------------------------------------------------
(* Properties of the delimiter line *)

\* the index of the '+' that closes column i: 1 + the sum of FieldSize + 2 over
\* the columns up to i
PlusAt(schema, i) ==
    1 + SumSeq(Tuple([j \in 1..i |-> schema[j].FieldSize + 2]))

\* C20: getTableDelimiter returns '+' followed, for each column in schema
\* order, by FieldSize+1 dashes and a '+'; its length is 1 + the sum over the
\* columns of (FieldSize + 2).
DelimiterShape ==
    fout.fn = "getTableDelimiter" =>
        /\ Len(fout.s) = PlusAt(fout.schema, Len(fout.schema))
        /\ fout.s[1] = "+"
        /\ \A i \in 1..Len(fout.schema) :
              /\ fout.s[PlusAt(fout.schema, i)] = "+"
              /\ \A k \in (PlusAt(fout.schema, i - 1) + 1)..(PlusAt(fout.schema, i) - 1) :
                    fout.s[k] = "-"
              /\ PlusAt(fout.schema, i) - PlusAt(fout.schema, i - 1) - 1
                    = fout.schema[i].FieldSize + 1

\* the delimiter of three columns of different widths, one of them of width 0
DelimiterShapeWitness ==
    /\ fout.fn = "getTableDelimiter"
    /\ Len(fout.schema) = 3
    /\ fout.schema[1].FieldSize = 5
    /\ fout.schema[2].FieldSize = 0
    /\ fout.schema[3].FieldSize = 12
    /\ Len(fout.s) = 24

---------------------------------------------------------------------------
(* Properties of the header line *)

\* a name behind the delimiter and one space, left-aligned in size characters
HeaderCell(name, size) ==
    DefaultDelimiter \o <<" ">> \o name \o emptyString(Max(0, size - Len(name)))

\* C21: getTableHeader renders the column names as one row in which every
\* column is treated as Text regardless of its declared type and keeps its
\* declared FieldSize: each name is preceded by the delimiter and one space and
\* left-aligned in FieldSize characters, and the schema passed in is not
\* modified.  Stated for column names of letters, digits, blanks and dots.
HeaderShape ==
    fout.fn = "getTableHeader" =>
        /\ fout.s = Concat(Tuple([i \in 1..Len(fout.schema) |->
                              HeaderCell(fout.schema[i].FieldName,
                                         fout.schema[i].FieldSize)]))
                    \o DefaultDelimiter
        /\ Len(Split(fout.s)) = 1
        /\ Len(fout.schema) = Len(Schema)
        /\ \A i \in 1..Len(Schema) :
              [fout.schema[i] EXCEPT !.FieldSize = 0] = [Schema[i] EXCEPT !.FieldSize = 0]

\* the header of an Integer, a Text and a Float column, the first narrower than
\* its name and the last wider
HeaderShapeWitness ==
    /\ fout.fn = "getTableHeader"
    /\ Len(fout.schema) = 3
    /\ fout.schema[1].FieldType = TypeInt
    /\ fout.schema[1].FieldSize < Len(fout.schema[1].FieldName)
    /\ fout.schema[2].FieldType = TypeString
    /\ fout.schema[3].FieldType = TypeFloat
    /\ fout.schema[3].FieldSize = 12
    /\ Len(fout.s) > 20

---------------------------------------------------------------------------
(* Properties of the comparators and of the sort as a whole *)

\* the layout of a DateTime column: its format, or the default
LayoutOf(field) ==
    IF field.FieldFormat = <<>> THEN DefaultTimeFormat ELSE field.FieldFormat

\* the text has one digit for each field of the layout
FitsLayout(s, layout) ==
    /\ Len(s) = Len(layout)
    /\ \A i \in 1..Len(s) : s[i] \in {"0", "1", "2", "3", "4", "5", "6", "7", "8", "9"}

\* the calls of Sort whose keys are all names of columns
KeysResolved == \A k \in 1..Len(op.fieldNames) : op.fieldNames[k] \in FieldNames(Schema)

KeyTypes == {Schema[FieldIndex(Schema, op.fieldNames[k])].FieldType : k \in 1..Len(op.fieldNames)}

\* C22: the DateTime comparator returns false whenever either operand does not
\* parse with the column's format (the default format when the column has
\* none), in both argument orders; the sort on DateTime keys runs to completion
\* without a fault, and in a sort on one DateTime key a row whose value does
\* not parse is never moved.
MalformedDateNotLess ==
    /\ (/\ fout.fn = "less"
        /\ fout.field.FieldType = TypeDateTime
        /\ \/ ~FitsLayout(fout.a.s, LayoutOf(fout.field))
           \/ ~FitsLayout(fout.b.s, LayoutOf(fout.field)))
       => (fout.ab = "false" /\ fout.ba = "false")
    /\ (op.name = "Sort" /\ KeysResolved /\ KeyTypes = {TypeDateTime})
       => /\ ~fault
          /\ Len(op.fieldNames) = 1 =>
                \A i \in 1..Len(pre.Data) :
                    LET index == FieldIndex(Schema, op.fieldNames[1])
                    IN  ~FitsLayout(pre.Data[i][index].s, LayoutOf(Schema[index]))
                            => Data[i] = pre.Data[i]

\* a sort on the DateTime column has finished with the row of a malformed date
\* still in front of a row with a well-formed one, and the comparator has been
\* called on a malformed and a well-formed date
MalformedDateNotLessWitness ==
    /\ op.name = "Sort"
    /\ ~fault
    /\ op.fieldNames = << <<"D", "A", "T", "E">> >>
    /\ Len(Data) >= 2
    /\ Data[1][1].s = Malformed
    /\ Data[2][1].s = <<"1", "9">>
    /\ fout.fn = "less"
    /\ fout.field.FieldType = TypeDateTime
    /\ fout.a.s = Malformed
    /\ fout.b.s = <<"1", "9">>
    /\ fout.ab = "false"
    /\ fout.ba = "false"

\* C23: the Boolean comparator is symmetric: less(a, b) = less(b, a) = (a
\* differs from b), true for (true, false) and (false, true) alike, false only
\* for equal values.
BoolLessSymmetric ==
    (fout.fn = "less" /\ fout.field.FieldType = TypeBool) =>
        /\ fout.ab = fout.ba
        /\ fout.ab = (IF fout.a = fout.b THEN "false" ELSE "true")

\* the comparator of the Boolean column called on true and false
BoolLessSymmetricWitness ==
    /\ fout.fn = "less"
    /\ fout.field.FieldType = TypeBool
    /\ fout.a = BoolV(TRUE)
    /\ fout.b = BoolV(FALSE)
    /\ fout.ab = "true"
    /\ fout.ba = "true"

\* the number of rows of data equal to row
Copies(data, row) == Cardinality({i \in 1..Len(data) : data[i] = row})

\* C25: Sort only permutes the rows in place: after
\* TableSorter(schema).OrderBy(...).Sort(data) the data holds the same rows as
\* before, each as often as before and with its cells unchanged, and the
\* schema is unchanged.
SortPermutesRows ==
    op.name = "Sort" =>
        /\ Schema = pre.Schema
        /\ Len(Data) = Len(pre.Data)
        /\ \A i \in 1..Len(Data) : Copies(Data, Data[i]) = Copies(pre.Data, Data[i])
        /\ \A i \in 1..Len(pre.Data) : Copies(Data, pre.Data[i]) = Copies(pre.Data, pre.Data[i])

\* a sort on the Integer column has moved the last row to the front
SortPermutesRowsWitness ==
    /\ op.name = "Sort"
    /\ ~fault
    /\ Len(Data) >= 2
    /\ Data # pre.Data
    /\ Data[1] = pre.Data[Len(Data)]
    /\ Data[1][2] = IntV(4)
    /\ Data[Len(Data)][2] = IntV(120)

\* C26: every key that OrderBy resolves gets a comparator, whatever the logical
\* type of its column, so the Sort that follows on two or more rows never
\* calls a missing comparator: a sort whose keys are all names of columns does
\* not fault.
ResolvedKeysHaveComparators ==
    (op.name = "Sort" /\ KeysResolved) => ~fault

---------------------------------------------------------------------------
(* Properties of the row measurement *)

\* C24: getRowSize returns the sum of getCellSize over the cells of the first
\* row only: the other rows and the FieldSize values of the schema have no
\* influence on it (the result is that of the table cut down to its first row
\* with all widths 0), hence none on the fold decision.
RowSizeOfFirstRow ==
    (fout.fn = "getRowSize" /\ ~fout.fault) =>
        /\ fout.n = SumSeq(Tuple([i \in 1..Len(Schema) |->
                                     getCellSize(Data[1][i], Schema[i])]))
        /\ fout.n = getRowSize(<<Data[1]>>,
                               Tuple([i \in 1..Len(Schema) |->
                                         [Schema[i] EXCEPT !.FieldSize = 0]]))

\* the size of a first row of 3 and 2 characters, in front of a second row of
\* 3 and 6 characters, with columns 12 wide
RowSizeOfFirstRowWitness ==
    /\ fout.fn = "getRowSize"
    /\ Len(Data) = 2
    /\ Data[1] = <<IntV(120), StrV(Coloured)>>
    /\ Data[2] = <<IntV(120), StrV(TwoLines)>>
    /\ \A i \in 1..2 : fout.schema[i].FieldSize = 12
    /\ fout.n = 6

---------------------------------------------------------------------------
(* Alignment of the adjusted table *)

\* the lines of the table block of an unfolded plain-text rendering: behind
\* the top line, if any, and in front of the footer and the two empty lines
TableBlock(lines) ==
    SubSeq(lines, IF op.topLine = <<>> THEN 1 ELSE 2, Len(lines) - 3)

\* C27: after AdjustFieldSizes every physical line of getTableAsString (the
\* header line and every line of every body row) has the same de-colorized
\* length as the delimiter line, 1 + the sum of (FieldSize + 2), for all tables
\* with Integer, Text and Float columns and all Text values, also those with
\* '%', colour sequences or several lines.  Stated of the table block of the
\* unfolded plain-text rendering, which adjusts the widths first.
AdjustedLinesAligned ==
    (/\ IsRender
     /\ op.format = ""
     /\ ~Folds
     /\ \A i \in 1..Len(Schema) : Schema[i].FieldType \in {TypeInt, TypeString, TypeFloat})
    => \E block \in {TableBlock(Split(ret.s))} :
          /\ Len(block) >= 4 + Len(Data)
          /\ \A y \in 1..Len(block) :
                Len(decolorize(block[y]))
                    = 1 + SumSeq(Tuple([i \in 1..Len(Schema) |-> Schema[i].FieldSize + 2]))

---------------------------------------------------------------------------
(* The widths after AdjustFieldSizes *)

\* C28: after AdjustFieldSizes the FieldSize of every column is at least the
\* length of its FieldName and at least getCellSize of every row's value in
\* the column: every line of a multi-line value fits in the column.
WidthsCoverContent ==
    op.name = "AdjustFieldSizes" =>
        \A i \in 1..Len(Schema) :
            /\ Schema[i].FieldSize >= Len(Schema[i].FieldName)
            /\ \A r \in 1..Len(Data) :
                  /\ Schema[i].FieldSize >= getCellSize(Data[r][i], Schema[i])
                  /\ Schema[i].FieldType = TypeString =>
                        \E lines \in {Split(decolorize(Data[r][i].s))} :
                            \A y \in 1..Len(lines) : Len(lines[y]) <= Schema[i].FieldSize

\* columns narrower than their names and than a number of three digits and a
\* text of two lines have been widened
WidthsCoverContentWitness ==
    /\ op.name = "AdjustFieldSizes"
    /\ Len(Data) = 2
    /\ Data[2] = <<IntV(120), StrV(TwoLines)>>
    /\ pre.Schema[1].FieldSize = 1
    /\ pre.Schema[2].FieldSize = 1
    /\ Schema[1].FieldSize = 4
    /\ Schema[2].FieldSize = 7

\* the rows of data in the order p
Permuted(data, p) == [r \in 1..Len(data) |-> data[p[r]]]

\* C29: the widths AdjustFieldSizes produces do not depend on the order of the
\* rows: the call yields the FieldSize values it yields for every permutation
\* of the rows, in particular for the result of Sort, so sorting before or
\* after adjusting gives the same schema.
WidthsIgnoreRowOrder ==
    /\ op.name = "AdjustFieldSizes" =>
          \A p \in Permutations(1..Len(pre.Data)) :
              Schema = AdjustFieldSizes(Permuted(pre.Data, p), pre.Schema)
    /\ op.name = "Sort" =>
          AdjustFieldSizes(Data, Schema) = AdjustFieldSizes(pre.Data, pre.Schema)

\* AdjustFieldSizes has widened a column for the first of two rows, the second
\* being narrower
WidthsIgnoreRowOrderWitness ==
    /\ op.name = "AdjustFieldSizes"
    /\ Len(Data) = 2
    /\ getCellSize(Data[1][2], Schema[2]) > pre.Schema[2].FieldSize
    /\ getCellSize(Data[1][2], Schema[2]) > Len(Schema[2].FieldName)
    /\ getCellSize(Data[2][2], Schema[2]) < getCellSize(Data[1][2], Schema[2])
    /\ Schema[2].FieldSize = getCellSize(Data[1][2], Schema[2]) + 1

---------------------------------------------------------------------------
(* The table without rows *)

\* C30: the plain-text rendering of a table with zero rows never reads row 0
\* and never folds, whatever the fold threshold: it returns, without fault, the
\* optional top line, then the delimiter, the header, the delimiter, the
\* delimiter, and the footer "Total: 0 <label>".
EmptyTableRenders ==
    (IsRender /\ op.format = "" /\ Len(Data) = 0) =>
        /\ ~fault
        /\ ret.err = ""
        /\ \E lines \in {Split(ret.s)} : \E n \in {IF op.topLine = <<>> THEN 0 ELSE 1} :
              /\ Len(lines) = n + 7
              /\ n = 1 => lines[1] = op.topLine
              /\ lines[n + 1] = getTableDelimiter(Schema)
              /\ IsHeaderOf(lines[n + 2], ColumnNames(Schema))
              /\ Len(lines[n + 2]) = Len(lines[n + 1])
              /\ lines[n + 3] = lines[n + 1]
              /\ lines[n + 4] = lines[n + 1]
              /\ lines[n + 5] = TotalLine(0, op.tableName)
              /\ lines[n + 6] = <<>>
              /\ lines[n + 7] = <<>>

\* a table without rows rendered behind a top line at a threshold below zero
EmptyTableRendersWitness ==
    /\ op.name = "RenderTableFoldable"
    /\ op.format = ""
    /\ op.foldAtLength < 0
    /\ op.topLine = Top
    /\ Len(Data) = 0
    /\ Len(Split(ret.s)) = 8
    /\ ~fault

=============================================================================
